---- MODULE Spec2Model ----
(***************************************************************************)
(* Model of the signal bot (eurotax/satoshi_bot).                          *)
(*                                                                         *)
(* Part 1: MemorySafeJobManager (src/bot.py, duplicated verbatim in        *)
(* src/dex/screener.py) together with the job queue it wraps, the clock    *)
(* it reads and the memory monitor of SafeBotApplication that calls into   *)
(* it.  Time is in whole seconds.  One action is one complete call of a    *)
(* method; the clock does not advance while a method runs, so the calls    *)
(* of time.time() within one add_job all return the same instant.          *)
(***************************************************************************)
EXTENDS Integers, FiniteSets, Sequences, TLC

\* ---- program constants -------------------------------------------------
max_jobs == 20
cleanup_interval == 600
retention == 3600
monitor_sleep == 300
critical_mb == 1024

\* ---- bounds of the model -----------------------------------------------
NumNames == 2        \* Spec: job identity names 1..NumNames
MaxHandles == 3      \* Spec: handles job_queue.run_repeating hands out
CapNames == 22       \* CapSpec: job identity names 1..CapNames, each used once
MaxEnv == 2          \* steps of the environment: clock, scheduler runtime, monitor
MaxRemovable == 1    \* CapSpec: the runtime ends one of the first handles only
MaxCancelFail == 1   \* schedule_removal calls that raise in one forced cleanup

Names == 1..NumNames
TickSteps == {monitor_sleep, 5 * cleanup_interval}
CapTickSteps == {retention, retention + 1}
MemoryLevels == {100, 2048}

VARIABLES
    jobs,          \* MemorySafeJobManager.jobs: name -> [job, created, callback]
    last_cleanup,  \* MemorySafeJobManager.last_cleanup
    queue,         \* the job queue: handle -> [name, removed, cancelled]
    now,           \* time.time()
    monitor_wake,  \* instant at which the monitor's sleep ends
    budget,        \* steps of the environment left
    last_sweep,    \* observation: the sweep log
    last,          \* observation: what the latest step did
    retry,         \* one call of a function wrapped by retry_with_exponential_backoff
    call,          \* one call of a function of safe_utils or of the scam filters
    flt,           \* calls of filter_signals on one list of pairs
    client,        \* the pooled HTTP client and the tasks that acquire or close it
    fetch,         \* one call of EnhancedSignalHandler.fetch_signals_with_retry
    push,          \* one trigger of a scheduled push job, one /signals command
    runs,          \* the triggers in progress of the two push jobs registered at startup
    app,           \* SafeBotApplication: the run, its shutdown tasks and the signals
    bybit          \* one run of bybit_alert_job

vars == <<jobs, last_cleanup, queue, now, monitor_wake, budget, last_sweep, last>>

\* the variables of the utility functions, which the job manager never touches
util_vars == <<retry, call, flt, client, fetch, push, runs, app, bybit>>

all_vars == <<jobs, last_cleanup, queue, now, monitor_wake, budget, last_sweep, last,
              retry, call, flt, client, fetch, push, runs, app, bybit>>

\* no call in progress
NoCall == [pc |-> "idle"]

\* ---- helpers -----------------------------------------------------------
Restrict(f, S) == [x \in S |-> f[x]]

Idle(op) ==
    [op |-> op, name |-> 0, dup |-> FALSE, held |-> 0, rejected |-> FALSE,
     raised |-> FALSE, handle |-> 0, sweep |-> FALSE, swept |-> {},
     forced |-> FALSE, old |-> {}, evicted |-> {}, failed |-> {},
     total_jobs |-> 0, active_jobs |-> 0]

\* the sweep log: instant of the latest sweep and of the latest sweep made by
\* _maybe_cleanup, and the time between the latest two of each (-1: none yet)
NoSweep == [at |-> -1, gap |-> -1, maybe_at |-> -1, maybe_gap |-> -1]

RecordSweep(ls, t, by) ==
    [at        |-> t,
     gap       |-> IF ls.at = -1 THEN -1 ELSE t - ls.at,
     maybe_at  |-> IF by = "maybe" THEN t ELSE ls.maybe_at,
     maybe_gap |-> IF by = "maybe" /\ ls.maybe_at # -1 THEN t - ls.maybe_at
                   ELSE ls.maybe_gap]

\* ---- the job handle and the job queue ----------------------------------
\* hasattr(job, 'removed') and job.removed
reports_removed(q, h) == q[h].removed

\* job_queue.run_repeating(..., name=name): a new handle, scheduled
run_repeating(q, name) ==
    Append(q, [name |-> name, removed |-> FALSE, cancelled |-> FALSE])

\* Job.schedule_removal(): cancels the schedule; the handle then reports removed
schedule_removal(q, h) ==
    [q EXCEPT ![h] = [@ EXCEPT !.removed = TRUE, !.cancelled = TRUE]]

\* ---- MemorySafeJobManager ----------------------------------------------
completed(j, q) == {n \in DOMAIN j : reports_removed(q, j[n].job)}

\* mutant: the test on removed inverted
cleanup_active_jobs(j, q) == Restrict(j, completed(j, q))

cleanup_completed_jobs(j, q) == Restrict(j, DOMAIN j \ completed(j, q))

cleanup_due(t, lc) == t - lc > cleanup_interval

maybe_cleanup(j, q, t, lc) ==
    IF cleanup_due(t, lc) THEN cleanup_completed_jobs(j, q) ELSE j

\* mutant: last_cleanup is not updated
maybe_cleanup_last_stale(t, lc) == lc

maybe_cleanup_last(t, lc) == IF cleanup_due(t, lc) THEN t ELSE lc

\* mutant: age >= 3600
old_jobs_inclusive(j, t) == {n \in DOMAIN j : t - j[n].created >= retention}

old_jobs(j, t) == {n \in DOMAIN j : t - j[n].created > retention}

\* the names force_cleanup deletes: the old ones whose schedule_removal returned
force_removed(j, t, failing) == old_jobs(j, t) \ failing

\* mutant: the entry is deleted before its schedule is cancelled
force_cleanup_all(j, t, failing) == Restrict(j, DOMAIN j \ old_jobs(j, t))

force_cleanup(j, t, failing) == Restrict(j, DOMAIN j \ force_removed(j, t, failing))

RECURSIVE cancel_all(_, _, _)
cancel_all(q, j, S) ==
    IF S = {} THEN q
    ELSE LET n == CHOOSE x \in S : TRUE
         IN  cancel_all(schedule_removal(q, j[n].job), j, S \ {n})

force_cleanup_queue(j, q, t, failing) == cancel_all(q, j, force_removed(j, t, failing))

at_capacity(j) == Cardinality(DOMAIN j) >= max_jobs

new_entry(h, t, callback) == [job |-> h, created |-> t, callback |-> callback]

insert_job(j, name, e) == [n \in DOMAIN j \cup {name} |-> IF n = name THEN e ELSE j[n]]

\* mutant: the entry is stored before run_repeating is called
store_job_first(j, name, e, accepted) == insert_job(j, name, e)

\* the registry after the try block: the entry is stored only once
\* run_repeating has returned
store_job(j, name, e, accepted) == IF accepted THEN insert_job(j, name, e) ELSE j

\* except Exception: log and re-raise
add_job_raises(accepted) == ~accepted

total_jobs(j) == Cardinality(DOMAIN j)

\* mutant: the test on removed inverted
active_jobs_inverted(j, q) == Cardinality({n \in DOMAIN j : reports_removed(q, j[n].job)})

active_jobs(j, q) == Cardinality({n \in DOMAIN j : ~reports_removed(q, j[n].job)})

\* ---- initial state: SafeBotApplication() constructed at time 0 ----------
JobInit ==
    /\ jobs = <<>>
    /\ last_cleanup = 0
    /\ queue = <<>>
    /\ now = 0
    /\ monitor_wake = 0
    /\ budget = MaxEnv
    /\ last_sweep = NoSweep
    /\ last = Idle("init")

Init ==
    /\ JobInit
    /\ retry = NoCall
    /\ call = NoCall
    /\ flt = NoCall
    /\ client = NoCall
    /\ fetch = NoCall
    /\ push = NoCall
    /\ runs = NoCall
    /\ app = NoCall
    /\ bybit = NoCall

\* ---- MemorySafeJobManager.add_job --------------------------------------
\* accepted: job_queue.run_repeating returns a handle (it raises otherwise);
\* failing: the names whose schedule_removal raises during forced cleanup
add_job(name, callback, accepted, failing) ==
    LET due    == cleanup_due(now, last_cleanup)
        j1     == maybe_cleanup(jobs, queue, now, last_cleanup)
        forced == at_capacity(j1)
        j2     == IF forced THEN force_cleanup(j1, now, failing) ELSE j1
        q2     == IF forced THEN force_cleanup_queue(j1, queue, now, failing) ELSE queue
        q3     == run_repeating(q2, name)
        h      == Len(q3)
    IN  /\ failing # {} => forced /\ failing \subseteq old_jobs(j1, now)
        /\ Cardinality(failing) <= MaxCancelFail
        /\ last_cleanup' = maybe_cleanup_last(now, last_cleanup)
        /\ queue' = IF accepted THEN q3 ELSE q2
        /\ jobs' = store_job(j2, name, new_entry(h, now, callback), accepted)
        /\ last_sweep' = IF due THEN RecordSweep(last_sweep, now, "maybe") ELSE last_sweep
        /\ last' = [Idle("add_job") EXCEPT
                        !.name = name,
                        !.dup = name \in DOMAIN jobs,
                        !.held = Cardinality(DOMAIN jobs),
                        !.rejected = ~accepted,
                        !.raised = add_job_raises(accepted),
                        !.handle = IF accepted THEN h ELSE 0,
                        !.sweep = due,
                        !.swept = DOMAIN jobs \ DOMAIN j1,
                        !.forced = forced,
                        !.old = IF forced THEN old_jobs(j1, now) ELSE {},
                        !.evicted = DOMAIN j1 \ DOMAIN j2,
                        !.failed = failing]
        /\ UNCHANGED <<now, monitor_wake, budget>>
        /\ UNCHANGED util_vars

\* the callback a name is registered with, as in _setup_handlers
callback_of(name) == IF name % 2 = 1 THEN "vip_signals_push" ELSE "public_signals_push"

\* any caller: any name, registered already or not
AddJob ==
    \E name \in Names, accepted \in BOOLEAN, failing \in SUBSET DOMAIN jobs :
        /\ Len(queue) < MaxHandles
        /\ add_job(name, callback_of(name), accepted, failing)

\* a caller that registers every name once
Register ==
    \E failing \in {{}} \cup {{n} : n \in DOMAIN jobs} :
        /\ Len(queue) < CapNames
        /\ add_job(Len(queue) + 1, callback_of(Len(queue) + 1), TRUE, failing)

\* ---- MemorySafeJobManager.get_stats ------------------------------------
get_stats ==
    /\ last' = [Idle("get_stats") EXCEPT
                    !.total_jobs = total_jobs(jobs),
                    !.active_jobs = active_jobs(jobs, queue)]
    /\ UNCHANGED <<jobs, last_cleanup, queue, now, monitor_wake, budget, last_sweep>>
    /\ UNCHANGED util_vars

\* ---- SafeBotApplication._memory_monitor: one iteration of the loop ------
memory_monitor(memory_mb) ==
    LET critical == memory_mb > critical_mb
    IN  /\ budget > 0
        /\ now >= monitor_wake
        /\ jobs' = IF critical THEN cleanup_completed_jobs(jobs, queue) ELSE jobs
        /\ monitor_wake' = now + monitor_sleep
        /\ budget' = budget - 1
        /\ last_sweep' = IF critical THEN RecordSweep(last_sweep, now, "monitor")
                         ELSE last_sweep
        /\ last' = [Idle("memory_monitor") EXCEPT
                        !.sweep = critical,
                        !.swept = DOMAIN jobs \ DOMAIN jobs']
        /\ UNCHANGED <<last_cleanup, queue, now>>
        /\ UNCHANGED util_vars

MemoryMonitor == \E memory_mb \in MemoryLevels : memory_monitor(memory_mb)

\* ---- environment -------------------------------------------------------
\* time passes
tick(d) ==
    /\ budget > 0
    /\ now' = now + d
    /\ budget' = budget - 1
    /\ last' = Idle("tick")
    /\ UNCHANGED <<jobs, last_cleanup, queue, monitor_wake, last_sweep>>
    /\ UNCHANGED util_vars

Tick == \E d \in TickSteps : tick(d)

CapTick == \E d \in CapTickSteps : tick(d)

\* the scheduler runtime ends a job: its handle reports removed from now on
job_removed(h) ==
    /\ budget > 0
    /\ ~queue[h].removed
    /\ queue' = [queue EXCEPT ![h] = [@ EXCEPT !.removed = TRUE]]
    /\ budget' = budget - 1
    /\ last' = Idle("job_removed")
    /\ UNCHANGED <<jobs, last_cleanup, now, monitor_wake, last_sweep>>
    /\ UNCHANGED util_vars

JobRemoved == \E h \in 1..Len(queue) : job_removed(h)

CapJobRemoved == \E h \in 1..Len(queue) : h <= MaxRemovable /\ job_removed(h)

\* ---- specifications ----------------------------------------------------
\* the manager under arbitrary callers, a few names
Next == AddJob \/ get_stats \/ MemoryMonitor \/ Tick \/ JobRemoved

Spec == Init /\ [][Next]_vars

\* the manager filled up to and beyond max_jobs
CapNext == Register \/ CapTick \/ CapJobRemoved

CapSpec == Init /\ [][CapNext]_vars

\* ---- the claims ---------------------------------------------------------
\* C1: the number of entries in the registry never exceeds max_jobs.
C1_CapacityBound == Cardinality(DOMAIN jobs) <= max_jobs

\* C2: an add_job call made while the registry holds max_jobs entries evicts
\* at least one job older than the retention threshold.
C2_EvictsAtCapacity ==
    (last.op = "add_job" /\ last.held = max_jobs) =>
        \E n \in last.evicted : n \in last.old

\* C3: add_job under a name that is already in the registry raises.
C3_DuplicateNameRaises ==
    (last.op = "add_job" /\ last.dup) => last.raised

\* C4: every handle run_repeating returned that is neither cancelled nor
\* reports removed is referenced by exactly one registry entry.
C4_NoOrphanedSchedule ==
    \A h \in 1..Len(queue) :
        (~queue[h].cancelled /\ ~queue[h].removed) =>
            Cardinality({n \in DOMAIN jobs : jobs[n].job = h}) = 1

\* C5: when job_queue.run_repeating raises, add_job raises too, and the entry
\* under the requested name is neither inserted nor overwritten.
C5_RejectionLeavesName ==
    [][(last'.op = "add_job" /\ last'.rejected) =>
          /\ last'.raised
          /\ Len(queue') = Len(queue)
          /\ last'.name \in DOMAIN jobs' =>
                /\ last'.name \in DOMAIN jobs
                /\ jobs'[last'.name] = jobs[last'.name]]_vars

\* a rejected registration under a name that stays registered
C5_Witness ==
    last.op = "add_job" /\ last.rejected /\ last.dup /\ last.name \in DOMAIN jobs

\* C6 as claimed: between two consecutive sweeps, whoever makes them, at
\* least cleanup_interval seconds elapse.
C6_SweepRate == last_sweep.gap = -1 \/ last_sweep.gap >= cleanup_interval

\* C6 as amended: between two consecutive sweeps made by _maybe_cleanup at
\* least cleanup_interval seconds elapse.
C6_MaybeSweepRate ==
    last_sweep.maybe_gap = -1 \/ last_sweep.maybe_gap >= cleanup_interval

\* _maybe_cleanup has swept twice
C6_Witness == last.op = "add_job" /\ last.sweep /\ last_sweep.maybe_gap >= 0

\* C7: a sweep removes exactly the entries whose handle reports removed,
\* leaves every other entry as it was and cancels no schedule.
C7_SweepExact ==
    [][last'.sweep =>
          /\ last'.swept = {n \in DOMAIN jobs : queue[jobs[n].job].removed}
          /\ \A n \in last'.swept : queue'[jobs[n].job] = queue[jobs[n].job]
          /\ \A n \in DOMAIN jobs \ (last'.swept \cup last'.evicted \cup {last'.name}) :
                n \in DOMAIN jobs' /\ jobs'[n] = jobs[n]
          /\ last'.op = "memory_monitor" =>
                /\ DOMAIN jobs' = DOMAIN jobs \ last'.swept
                /\ queue' = queue]_vars

\* a sweep that dropped an entry and kept another
C7_Witness ==
    /\ last.sweep
    /\ last.swept # {}
    /\ \E n \in DOMAIN jobs : n # last.name

young(j, t) == {n \in DOMAIN j : t - j[n].created <= retention}

\* C8: add_job runs the forced cleanup only if the registry holds at least
\* max_jobs entries after the maybe-cleanup pass; the forced cleanup evicts
\* no job whose age is at most the retention threshold, and a job that young
\* whose handle does not report removed is still registered and still
\* scheduled after the call.
C8_ForcedCleanupSparesYoung ==
    [][last'.op = "add_job" =>
          /\ last'.forced => last'.held - Cardinality(last'.swept) >= max_jobs
          /\ ~last'.forced => last'.evicted = {}
          /\ last'.evicted \cap young(jobs, now) = {}
          /\ \A n \in young(jobs, now) :
                ~queue[jobs[n].job].removed =>
                    /\ n \in DOMAIN jobs'
                    /\ n # last'.name => jobs'[n] = jobs[n]
                    /\ queue'[jobs[n].job] = queue[jobs[n].job]]_vars

\* a forced cleanup that evicted old jobs while younger ones stayed
C8_Witness ==
    /\ last.op = "add_job"
    /\ last.forced
    /\ last.evicted # {}
    /\ last.failed = {}
    /\ \E n \in DOMAIN jobs : n # last.name

\* C9: every job the forced cleanup deletes has been cancelled; a job whose
\* schedule_removal raised stays registered, and the other old jobs are
\* cancelled and deleted all the same.
C9_ForcedCleanupCancels ==
    [][(last'.op = "add_job" /\ last'.forced) =>
          /\ \A n \in last'.evicted : queue'[jobs[n].job].cancelled
          /\ \A n \in last'.failed :
                /\ n \in DOMAIN jobs'
                /\ n # last'.name => jobs'[n] = jobs[n]
                /\ queue'[jobs[n].job] = queue[jobs[n].job]
          /\ last'.evicted = last'.old \ last'.failed]_vars

\* a forced cleanup in which one cancellation raised and others went through
C9_Witness ==
    /\ last.op = "add_job"
    /\ last.forced
    /\ last.failed # {}
    /\ last.evicted # {}

\* C10: get_stats reports the number of entries and the number of entries
\* whose handle does not report removed, the second is at most the first,
\* and the call changes nothing.
C10_Stats ==
    [][last'.op = "get_stats" =>
          /\ last'.total_jobs = Cardinality(DOMAIN jobs)
          /\ last'.active_jobs =
                Cardinality(DOMAIN jobs) - Cardinality({n \in DOMAIN jobs : queue[jobs[n].job].removed})
          /\ last'.active_jobs <= last'.total_jobs
          /\ UNCHANGED <<jobs, last_cleanup, queue, now>>]_vars

\* statistics taken while a registered job reports removed
C10_Witness ==
    /\ last.op = "get_stats"
    /\ last.active_jobs < last.total_jobs
    /\ last.active_jobs > 0

(***************************************************************************)
(* Part 2: retry_with_exponential_backoff (src/safe_utils.py).  One call   *)
(* of a wrapped coroutine function: retry.attempt is the loop variable,    *)
(* retry.outcomes the outcome of each invocation of the wrapped function   *)
(* and retry.waits the argument of each asyncio.sleep, in order.  Delays   *)
(* are in whole seconds.  The value an invocation returns and the          *)
(* exception it raises are identified by the attempt that produced them.   *)
(***************************************************************************)
MaxRetries == 3      \* max_retries ranges over 0..MaxRetries

BaseDelays == {1, 3}

\* what one invocation of the wrapped function does: it returns, or raises an
\* exception of one of two kinds (an HTTP 429 answer, any other network error)
Failures == {"RateLimited", "NetworkError"}

Outcomes == {"ok"} \cup Failures

NoException == [attempt |-> -1, kind |-> "none"]

\* delay = base_delay * (2 ** attempt)
backoff_delay_linear(base_delay, attempt) == base_delay * (attempt + 1)
backoff_delay(base_delay, attempt) == base_delay * 2^attempt

\* if attempt == max_retries
is_final_attempt_early(attempt, max_retries) == attempt + 1 >= max_retries
is_final_attempt(attempt, max_retries) == attempt = max_retries

\* the wrapper entered: last_exception = None, the loop about to start
retry_start(max_retries, base_delay) ==
    [pc |-> "call", max_retries |-> max_retries, base_delay |-> base_delay,
     attempt |-> 0, outcomes |-> <<>>, waits |-> <<>>,
     last_exception |-> NoException, result |-> -1, raised |-> NoException]

\* one pass through the try statement of the loop body: await func(...),
\* and on an exception the handler up to the call of asyncio.sleep
retry_invoke(outcome) ==
    /\ retry.pc = "call"
    /\ retry' =
         IF outcome = "ok"
         THEN [retry EXCEPT !.pc = "returned",
                            !.outcomes = Append(@, outcome),
                            !.result = retry.attempt]
         ELSE LET e == [attempt |-> retry.attempt, kind |-> outcome]
              IN  IF is_final_attempt(retry.attempt, retry.max_retries)
                  THEN [retry EXCEPT !.pc = "raised",
                                     !.outcomes = Append(@, outcome),
                                     !.last_exception = e,
                                     !.raised = e]
                  ELSE [retry EXCEPT !.pc = "sleep",
                                     !.outcomes = Append(@, outcome),
                                     !.last_exception = e,
                                     !.waits = Append(@, backoff_delay(retry.base_delay,
                                                                       retry.attempt))]
    /\ UNCHANGED <<vars, call, flt, client, fetch, push, runs, app, bybit>>

RetryInvoke == \E outcome \in Outcomes : retry_invoke(outcome)

\* asyncio.sleep returns: the next value of range(max_retries + 1), or the
\* end of the loop and raise last_exception
RetryWake ==
    /\ retry.pc = "sleep"
    /\ retry' =
         IF retry.attempt + 1 <= retry.max_retries
         THEN [retry EXCEPT !.pc = "call", !.attempt = @ + 1]
         ELSE [retry EXCEPT !.pc = "raised", !.attempt = @ + 1,
                            !.raised = retry.last_exception]
    /\ UNCHANGED <<vars, call, flt, client, fetch, push, runs, app, bybit>>

RetryInit ==
    /\ JobInit
    /\ retry \in {retry_start(n, b) : n \in 0..MaxRetries, b \in BaseDelays}
    /\ call = NoCall
    /\ flt = NoCall
    /\ client = NoCall
    /\ fetch = NoCall
    /\ push = NoCall
    /\ runs = NoCall
    /\ app = NoCall
    /\ bybit = NoCall

RetryNext == RetryInvoke \/ RetryWake

RetrySpec == RetryInit /\ [][RetryNext]_all_vars

\* the invocations made so far, and those that failed
invocations == Len(retry.outcomes)

all_failed == \A k \in 1..invocations : retry.outcomes[k] \in Failures

\* C11: the wrapped function is invoked at most max_retries + 1 times; the
\* wrapper raises only after max_retries + 1 invocations that all failed, and
\* what it raises is the exception of the last invocation; it returns only
\* the result of an invocation that succeeded, and that invocation is the
\* last one made; while all invocations so far failed and fewer than
\* max_retries + 1 were made, the wrapper has not ended.
C11_RetryBound ==
    /\ invocations <= retry.max_retries + 1
    /\ retry.pc = "raised" =>
         /\ invocations = retry.max_retries + 1
         /\ all_failed
         /\ retry.raised = [attempt |-> invocations - 1,
                            kind |-> retry.outcomes[invocations]]
    /\ retry.pc = "returned" =>
         /\ retry.outcomes[invocations] = "ok"
         /\ retry.result = invocations - 1
         /\ \A k \in 1..(invocations - 1) : retry.outcomes[k] \in Failures
    /\ (all_failed /\ invocations < retry.max_retries + 1) =>
         retry.pc \in {"call", "sleep"}
    /\ ~all_failed => retry.pc = "returned"

\* every invocation failed, the failures were of different kinds
C11_Witness ==
    /\ retry.pc = "raised"
    /\ retry.max_retries >= 2
    /\ retry.outcomes[invocations] # retry.outcomes[invocations - 1]

\* C12: one wait after each failed invocation but the final one, the wait
\* before attempt k being base_delay * 2^(k-1); no wait after the final
\* failed invocation, none after a success.
C12_BackoffSchedule ==
    /\ \A k \in 1..Len(retry.waits) : retry.waits[k] = retry.base_delay * 2^(k - 1)
    /\ retry.pc = "sleep" => Len(retry.waits) = invocations
    /\ retry.pc = "call" => Len(retry.waits) = invocations /\ invocations = retry.attempt
    /\ retry.pc \in {"returned", "raised"} => Len(retry.waits) = invocations - 1

\* three waits, then the final failure
C12_Witness ==
    /\ retry.pc = "raised"
    /\ Len(retry.waits) >= 3
    /\ retry.base_delay > 1

\* C13: after a rate-limit failure the wrapper either makes no further
\* attempt or waits longer than the exponential schedule has it wait after a
\* generic failure of the same attempt.
C13_RateLimitDistinguished ==
    \A k \in 1..invocations :
        (retry.outcomes[k] = "RateLimited" /\ k <= Len(retry.waits)) =>
            retry.waits[k] > backoff_delay(retry.base_delay, k - 1)

(***************************************************************************)
(* Part 3: the values the utility functions receive.  A Python value is a  *)
(* record tagged by its type (field t):                                    *)
(*   none                 None                                             *)
(*   bool   b             True, False                                      *)
(*   int    v             an int that a float can hold                     *)
(*   bigint sign          an int beyond the range of float, as 10**400     *)
(*   float  c, n, d       c = "fin": the number n/d (d > 0); c = "nan",    *)
(*                        "inf", "ninf": the three values that are not     *)
(*                        finite                                           *)
(*   str    s             the sequence of its characters                   *)
(*   dict   d             key -> value, Missing standing for no such key   *)
(*   list   len           a list, of which only the length matters         *)
(*   exc    e             not a value: the exception an evaluation raised  *)
(* Finite floats are exact rationals: rounding is not modelled.            *)
(***************************************************************************)
Missing == [t |-> "missing"]

PyNone == [t |-> "none"]

PyBool(b) == [t |-> "bool", b |-> b]

PyInt(v) == [t |-> "int", v |-> v]

PyBigInt(sign) == [t |-> "bigint", sign |-> sign]

Fin(n, d) == [t |-> "float", c |-> "fin", n |-> n, d |-> d]

NaN == [t |-> "float", c |-> "nan", n |-> 0, d |-> 1]

PosInf == [t |-> "float", c |-> "inf", n |-> 0, d |-> 1]

NegInf == [t |-> "float", c |-> "ninf", n |-> 0, d |-> 1]

PyStr(s) == [t |-> "str", s |-> s]

PyList(len) == [t |-> "list", len |-> len]

Exc(e) == [t |-> "exc", e |-> e]

is_exc(x) == x.t = "exc"

\* the keys of the dicts of the model
Keys ==
    {"baseToken", "quoteToken", "priceUsd", "pairAddress", "volume", "liquidity",
     "priceChange", "txns", "marketCap", "pairCreatedAt", "chainId",
     "name", "symbol", "h24", "h1", "usd", "buys", "sells", "price24hPcnt", "lastPrice"}

\* the dict with the entries of the record r
PyDict(r) ==
    [t |-> "dict", d |-> [k \in Keys |-> IF k \in DOMAIN r THEN r[k] ELSE Missing]]

EmptyDict == [t |-> "dict", d |-> [k \in Keys |-> Missing]]

\* key in x, for a dict x
has_key(x, k) == x.d[k].t # "missing"

\* x.get(k, default): only a dict has the method; an exception raised while
\* x was evaluated is what the whole expression raises
dict_get(x, k, default) ==
    IF is_exc(x) THEN x
    ELSE IF x.t = "dict"
    THEN IF has_key(x, k) THEN x.d[k] ELSE default
    ELSE Exc("AttributeError")

\* bool(x), the test of "if x" and "not x"
truthy(x) ==
    CASE x.t = "none"   -> FALSE
      [] x.t = "bool"   -> x.b
      [] x.t = "int"    -> x.v # 0
      [] x.t = "bigint" -> TRUE
      [] x.t = "float"  -> x.c # "fin" \/ x.n # 0
      [] x.t = "str"    -> Len(x.s) > 0
      [] x.t = "dict"   -> \E k \in Keys : has_key(x, k)
      [] x.t = "list"   -> x.len > 0

\* ---- str.strip, str.lower, x in str ------------------------------------
Whitespace == {" ", "\t", "\n"}

UpperCase == <<"A", "B", "C", "D", "E", "F", "G", "H", "I", "J", "K", "L", "M",
               "N", "O", "P", "Q", "R", "S", "T", "U", "V", "W", "X", "Y", "Z">>

LowerCase == <<"a", "b", "c", "d", "e", "f", "g", "h", "i", "j", "k", "l", "m",
               "n", "o", "p", "q", "r", "s", "t", "u", "v", "w", "x", "y", "z">>

char_lower(c) ==
    IF \E i \in 1..Len(UpperCase) : UpperCase[i] = c
    THEN LowerCase[CHOOSE i \in 1..Len(UpperCase) : UpperCase[i] = c]
    ELSE c

str_lower(s) == [i \in 1..Len(s) |-> char_lower(s[i])]

SetMin(S) == CHOOSE x \in S : \A y \in S : x <= y

SetMax(S) == CHOOSE x \in S : \A y \in S : x >= y

str_strip(s) ==
    LET kept == {i \in 1..Len(s) : s[i] \notin Whitespace}
    IN  IF kept = {} THEN <<>> ELSE SubSeq(s, SetMin(kept), SetMax(kept))

\* pattern in s
str_contains(s, pattern) ==
    \E i \in 1..(Len(s) - Len(pattern) + 1) :
        SubSeq(s, i, i + Len(pattern) - 1) = pattern

\* ---- float(str) --------------------------------------------------------
Digits == <<"0", "1", "2", "3", "4", "5", "6", "7", "8", "9">>

is_digit(c) == \E i \in 1..Len(Digits) : Digits[i] = c

digit_value(c) == (CHOOSE i \in 1..Len(Digits) : Digits[i] = c) - 1

all_digits(s) == \A i \in 1..Len(s) : is_digit(s[i])

RECURSIVE digits_value(_)
digits_value(s) ==
    IF s = <<>> THEN 0
    ELSE 10 * digits_value(SubSeq(s, 1, Len(s) - 1)) + digit_value(s[Len(s)])

\* the first position of s that holds one of chars, 0 if there is none
index_of(s, chars) ==
    IF \E i \in 1..Len(s) : s[i] \in chars
    THEN SetMin({i \in 1..Len(s) : s[i] \in chars})
    ELSE 0

\* sys.float_info.max_10_exp: a decimal exponent beyond it overflows to inf
max_10_exp == 308

\* float(s) for a str s: surrounding whitespace, a sign, then inf, infinity
\* or nan in any case, or digits with an optional point and an optional
\* exponent.  The strings of the model have no underscore between digits,
\* no character outside ASCII, a mantissa below 10 when an exponent follows,
\* and an exponent that either overflows or is small.  The steps, last first:
\* the value of mantissa n/d and exponent e
float_value(neg, n, d, eneg, e) ==
    IF n = 0 THEN Fin(0, 1)
    ELSE IF ~eneg /\ e > max_10_exp THEN IF neg THEN NegInf ELSE PosInf
    ELSE IF eneg THEN Fin(IF neg THEN 0 - n ELSE n, d * 10^e)
    ELSE Fin((IF neg THEN 0 - n ELSE n) * 10^e, d)

\* ip and fp the digits before and after the point, edigits those of the
\* exponent
float_digits(neg, ip, fp, has_exp, eneg, edigits) ==
    IF /\ all_digits(ip)
       /\ all_digits(fp)
       /\ Len(ip) + Len(fp) >= 1
       /\ has_exp => (Len(edigits) >= 1 /\ all_digits(edigits))
    THEN float_value(neg, digits_value(ip) * 10^Len(fp) + digits_value(fp), 10^Len(fp),
                     eneg, digits_value(edigits))
    ELSE Exc("ValueError")

\* the mantissa split at the point (dot its position, 0 if there is none),
\* the exponent stripped of its sign
float_parts(neg, mant, dot, has_exp, expo) ==
    float_digits(neg,
                 IF dot = 0 THEN mant ELSE SubSeq(mant, 1, dot - 1),
                 IF dot = 0 THEN <<>> ELSE SubSeq(mant, dot + 1, Len(mant)),
                 has_exp,
                 expo # <<>> /\ expo[1] = "-",
                 IF expo # <<>> /\ expo[1] \in {"+", "-"} THEN Tail(expo) ELSE expo)

\* a decimal number split at the letter e (epos its position, 0 if none)
float_mantissa(neg, mant, has_exp, expo) ==
    float_parts(neg, mant, index_of(mant, {"."}), has_exp, expo)

float_decimal(neg, low, epos) ==
    float_mantissa(neg,
                   IF epos = 0 THEN low ELSE SubSeq(low, 1, epos - 1),
                   epos # 0,
                   IF epos = 0 THEN <<>> ELSE SubSeq(low, epos + 1, Len(low)))

\* low: the text behind the sign, in lower case
float_unsigned(neg, low) ==
    IF low \in {<<"i", "n", "f">>, <<"i", "n", "f", "i", "n", "i", "t", "y">>}
    THEN IF neg THEN NegInf ELSE PosInf
    ELSE IF low = <<"n", "a", "n">> THEN NaN
    ELSE float_decimal(neg, low, index_of(low, {"e"}))

\* s: the text without surrounding whitespace
float_stripped(s) ==
    float_unsigned(s # <<>> /\ s[1] = "-",
                   str_lower(IF s # <<>> /\ s[1] \in {"+", "-"} THEN Tail(s) ELSE s))

float_of_str(s0) == float_stripped(str_strip(s0))

\* float(x)
py_float(x) ==
    CASE x.t = "float"  -> x
      [] x.t = "bool"   -> Fin(IF x.b THEN 1 ELSE 0, 1)
      [] x.t = "int"    -> Fin(x.v, 1)
      [] x.t = "bigint" -> Exc("OverflowError")
      [] x.t = "str"    -> float_of_str(x.s)
      [] OTHER          -> Exc("TypeError")

\* math.isnan(x) or math.isinf(x) for an int or a float x: both convert
\* their argument to a float first, which is f
not_finite(f) == IF is_exc(f) THEN f ELSE PyBool(f.c # "fin")

isnan_or_isinf(x) == not_finite(py_float(x))

\* ---- comparison and arithmetic of floats -------------------------------
f_lt(a, b) ==
    /\ a.c # "nan"
    /\ b.c # "nan"
    /\ CASE a.c = "ninf" -> b.c # "ninf"
         [] a.c = "inf"  -> FALSE
         [] a.c = "fin"  -> b.c = "inf" \/ (b.c = "fin" /\ a.n * b.d < b.n * a.d)

f_eq(a, b) ==
    /\ a.c # "nan"
    /\ a.c = b.c
    /\ a.c = "fin" => a.n * b.d = b.n * a.d

f_le(a, b) == f_lt(a, b) \/ f_eq(a, b)

f_abs(a) ==
    CASE a.c = "fin"  -> Fin(IF a.n < 0 THEN 0 - a.n ELSE a.n, a.d)
      [] a.c = "ninf" -> PosInf
      [] OTHER        -> a

f_is_zero(a) == a.c = "fin" /\ a.n = 0

f_neg(a) == a.c = "ninf" \/ (a.c = "fin" /\ a.n < 0)

f_add(a, b) ==
    CASE a.c = "nan" \/ b.c = "nan"    -> NaN
      [] a.c = "fin" /\ b.c = "fin"    -> Fin(a.n * b.d + b.n * a.d, a.d * b.d)
      [] a.c = "fin"                   -> b
      [] b.c = "fin"                   -> a
      [] a.c = b.c                     -> a
      [] OTHER                         -> NaN

\* a / b for floats, b not zero
f_div(a, b) ==
    CASE a.c = "nan" \/ b.c = "nan"    -> NaN
      [] a.c = "fin" /\ b.c = "fin"    ->
            IF b.n < 0 THEN Fin(0 - a.n * b.d, a.d * (0 - b.n))
            ELSE Fin(a.n * b.d, a.d * b.n)
      [] a.c = "fin"                   -> Fin(0, 1)
      [] b.c = "fin"                   -> IF f_neg(a) = f_neg(b) THEN PosInf ELSE NegInf
      [] OTHER                         -> NaN

is_number(x) == x.t \in {"bool", "int", "float"}

\* ---- safe_utils.safe_float_convert -------------------------------------
\* the test of the numeric branch: isinstance(value, (int, float)); bool is a
\* subclass of int
is_int_or_float(x) == x.t \in {"bool", "int", "bigint", "float"}

reserved_words ==
    {<<"n", "u", "l", "l">>, <<"n", "o", "n", "e">>,
     <<"u", "n", "d", "e", "f", "i", "n", "e", "d">>}

\* lines 20-23, bad being math.isnan(value) or math.isinf(value): an
\* exception raised by the test leaves the function
convert_number(value, bad, default) ==
    IF is_exc(bad) THEN bad
    ELSE IF bad.b THEN default
    ELSE py_float(value)

\* lines 31-38, result being float(value)
convert_parsed(result, default) ==
    IF is_exc(result)
    THEN IF result.e \in {"ValueError", "OverflowError"} THEN default ELSE result
    ELSE IF result.c # "fin" THEN default
    ELSE result

\* lines 28-38, stripped being value.strip()
convert_str(stripped, default) ==
    IF stripped = <<>> \/ str_lower(stripped) \in reserved_words
    THEN default
    ELSE convert_parsed(float_of_str(stripped), default)

safe_float_convert(value, default) ==
    IF value.t = "none" THEN default
    ELSE IF is_int_or_float(value) THEN convert_number(value, isnan_or_isinf(value), default)
    ELSE IF value.t = "str" THEN convert_str(str_strip(value.s), default)
    ELSE default

\* ---- one call of a utility function ------------------------------------
\* the strings handed to the conversions
StrSamples ==
    {<<>>,
     <<" ">>,
     <<"n", "u", "l", "l">>,
     <<"N", "U", "L", "L">>,
     <<" ", "N", "o", "n", "e", " ">>,
     <<"u", "n", "d", "e", "f", "i", "n", "e", "d">>,
     <<"a", "b", "c">>,
     <<"n", "a", "n">>,
     <<"N", "a", "N">>,
     <<"i", "n", "f">>,
     <<"-", "i", "n", "f">>,
     <<"I", "n", "f", "i", "n", "i", "t", "y">>,
     <<"3", ".", "1", "4">>,
     <<" ", "3", ".", "1", "4", " ">>,
     <<"\t", "5">>,
     <<"1", "e", "9", "9", "9">>,
     <<"-", "1", "e", "9", "9", "9">>,
     <<"1", "e", "3">>,
     <<"5", "e", "-", "1">>,
     <<"0">>,
     <<"0", ".", "0">>,
     <<"-", "0", ".", "5">>,
     <<".", "5">>,
     <<"5", ".">>,
     <<".">>,
     <<"-">>,
     <<"e", "5">>,
     <<"1", "e">>,
     <<"1", ".", "2", ".", "3">>,
     <<"1", "2", "a">>,
     <<"+", "7">>}

NumberSamples ==
    {PyInt(0 - 1), PyInt(0), PyInt(5), PyBool(TRUE), PyBool(FALSE),
     PyBigInt(1), PyBigInt(0 - 1),
     Fin(314, 100), Fin(0, 1), Fin(0 - 5, 2), NaN, PosInf, NegInf}

OtherSamples == {PyNone, EmptyDict, PyDict([symbol |-> PyStr(<<"A">>)]), PyList(0), PyList(2)}

CoerceInputs == NumberSamples \cup {PyStr(s) : s \in StrSamples} \cup OtherSamples

\* the default of the parameter default
default_float == Fin(0, 1)

\* a call about to be made
call_of(fn, arg) == [pc |-> "ready", fn |-> fn, arg |-> arg, result |-> PyNone]

call_safe_float_convert ==
    /\ call.pc = "ready"
    /\ call.fn = "safe_float_convert"
    /\ call' = [call EXCEPT !.pc = "done",
                            !.result = safe_float_convert(call.arg, default_float)]
    /\ UNCHANGED <<vars, retry, flt, client, fetch, push, runs, app, bybit>>

\* ---- safe_utils.validate_pair_data -------------------------------------
required_fields == {"baseToken", "quoteToken", "priceUsd"}

\* lines 76-80, price_usd being safe_float_convert(pair.get('priceUsd'))
price_valid(price_usd) ==
    IF is_exc(price_usd) THEN price_usd
    ELSE IF f_le(price_usd, Fin(0, 1)) THEN PyBool(FALSE)
    ELSE PyBool(TRUE)

\* lines 69-80
tokens_valid(pair, base_token, quote_token) ==
    IF base_token.t # "dict" \/ quote_token.t # "dict" THEN PyBool(FALSE)
    ELSE IF \/ ~truthy(dict_get(base_token, "symbol", PyNone))
            \/ ~truthy(dict_get(quote_token, "symbol", PyNone))
    THEN PyBool(FALSE)
    ELSE price_valid(safe_float_convert(dict_get(pair, "priceUsd", PyNone), default_float))

validate_pair_data(pair) ==
    IF pair.t # "dict" THEN PyBool(FALSE)
    ELSE IF \E field \in required_fields : ~has_key(pair, field) THEN PyBool(FALSE)
    ELSE tokens_valid(pair, dict_get(pair, "baseToken", EmptyDict),
                      dict_get(pair, "quoteToken", EmptyDict))

\* the records handed to validate_pair_data: what the three fields it reads
\* may hold, and values that are no dict
SymbolSamples ==
    {PyStr(<<"A", "L", "P">>), PyStr(<<" ", "X", " ">>), PyStr(<<" ">>), PyStr(<<>>),
     PyNone, PyInt(5)}

TokenSamples ==
    {Missing, PyNone, PyStr(<<"A">>), EmptyDict}
        \cup {PyDict([symbol |-> s]) : s \in SymbolSamples}

PriceSamples ==
    {Missing, PyNone, PyInt(0), PyInt(5), PyBigInt(1), Fin(1, 2), NaN,
     PyStr(<<"0", ".", "5">>), PyStr(<<"0">>), PyStr(<<"-", "1">>), PyStr(<<"a", "b", "c">>)}

ValidateInputs ==
    {PyDict([baseToken |-> b, quoteToken |-> q, priceUsd |-> p]) :
        b \in TokenSamples, q \in TokenSamples, p \in PriceSamples}
        \cup {PyNone, PyList(1), PyStr(<<"A">>)}

call_validate_pair_data ==
    /\ call.pc = "ready"
    /\ call.fn = "validate_pair_data"
    /\ call' = [call EXCEPT !.pc = "done", !.result = validate_pair_data(call.arg)]
    /\ UNCHANGED <<vars, retry, flt, client, fetch, push, runs, app, bybit>>

\* ---- operators of Python on the values of a record ---------------------
\* Each yields a value or the exception the operation raises; an operand that
\* is itself an exception is passed on.  Arithmetic on an int beyond the
\* range of float is not modelled: no count of the model is one.
\* a bool, an int or a float as a float
num(x) ==
    CASE x.t = "float" -> x
      [] x.t = "bool"  -> Fin(IF x.b THEN 1 ELSE 0, 1)
      [] x.t = "int"   -> Fin(x.v, 1)

\* an int or a float as the float it compares like: Python compares an int
\* beyond the range of float with a finite float exactly, as an infinity would
cmp_value(x) ==
    IF x.t = "bigint" THEN IF x.sign > 0 THEN PosInf ELSE NegInf ELSE num(x)

is_comparable(x) == is_number(x) \/ x.t = "bigint"

\* float(x), passing an exception on
to_float(x) == IF is_exc(x) THEN x ELSE py_float(x)

\* a + b
py_add(a, b) ==
    IF is_exc(a) THEN a
    ELSE IF is_exc(b) THEN b
    ELSE IF is_number(a) /\ is_number(b) THEN f_add(num(a), num(b))
    ELSE IF a.t = "str" /\ b.t = "str" THEN PyStr(a.s \o b.s)
    ELSE IF a.t = "list" /\ b.t = "list" THEN PyList(a.len + b.len)
    ELSE Exc("TypeError")

\* a - b
py_sub(a, b) ==
    IF is_exc(a) THEN a
    ELSE IF is_exc(b) THEN b
    ELSE IF is_number(a) /\ is_number(b)
    THEN f_add(num(a), f_div(num(b), Fin(0 - 1, 1)))
    ELSE Exc("TypeError")

\* a / b
py_truediv(a, b) ==
    IF is_exc(a) THEN a
    ELSE IF is_exc(b) THEN b
    ELSE IF is_number(a) /\ is_number(b)
    THEN IF f_is_zero(num(b)) THEN Exc("ZeroDivisionError") ELSE f_div(num(a), num(b))
    ELSE Exc("TypeError")

\* a <= b and a < b, one of them a number
py_le(a, b) ==
    IF is_exc(a) THEN a
    ELSE IF is_exc(b) THEN b
    ELSE IF is_comparable(a) /\ is_comparable(b)
    THEN PyBool(f_le(cmp_value(a), cmp_value(b)))
    ELSE Exc("TypeError")

py_lt(a, b) ==
    IF is_exc(a) THEN a
    ELSE IF is_exc(b) THEN b
    ELSE IF is_comparable(a) /\ is_comparable(b)
    THEN PyBool(f_lt(cmp_value(a), cmp_value(b)))
    ELSE Exc("TypeError")

\* a == 0: never raises
py_eq_zero(a) == is_number(a) /\ f_is_zero(num(a))

\* x.strip(): only a str has the method
py_strip(x) ==
    IF is_exc(x) THEN x
    ELSE IF x.t = "str" THEN PyStr(str_strip(x.s))
    ELSE Exc("AttributeError")

\* a comparison that came out true: not raised, not false
holds(c) == ~is_exc(c) /\ c.b

(***************************************************************************)
(* Part 4: the scam filters (src/filters/scam_filters.py).  Each predicate *)
(* wraps its body in try/except Exception, so it returns a bool whatever   *)
(* it is given.  A predicate is written as the chain of the values its     *)
(* body computes, each step taking the values computed before it.          *)
(***************************************************************************)
min_h1_txns == 5
min_h24_txns == 20

\* return h1_total >= min_h1_txns and h24_total >= min_h24_txns
activity_totals_either(h1_total, h24_total) ==
    /\ ~is_exc(h1_total)
    /\ ~is_exc(h24_total)
    /\ \/ holds(py_le(PyInt(min_h1_txns), h1_total))
       \/ holds(py_le(PyInt(min_h24_txns), h24_total))
activity_totals(h1_total, h24_total) ==
    /\ ~is_exc(h1_total)
    /\ ~is_exc(h24_total)
    /\ holds(py_le(PyInt(min_h1_txns), h1_total))
    /\ holds(py_le(PyInt(min_h24_txns), h24_total))

activity_windows(h1_txns, h24_txns) ==
    activity_totals(py_add(dict_get(h1_txns, "buys", PyInt(0)),
                           dict_get(h1_txns, "sells", PyInt(0))),
                    py_add(dict_get(h24_txns, "buys", PyInt(0)),
                           dict_get(h24_txns, "sells", PyInt(0))))

activity_txns(txns) ==
    activity_windows(dict_get(txns, "h1", EmptyDict), dict_get(txns, "h24", EmptyDict))

has_sufficient_trading_activity(pair_data) ==
    activity_txns(dict_get(pair_data, "txns", EmptyDict))

\* return 0.2 <= buy_ratio <= 0.8
min_buy_ratio_low == Fin(15, 100)
min_buy_ratio == Fin(2, 10)

max_buy_ratio == Fin(8, 10)

in_buy_band(buy_ratio) ==
    /\ holds(py_le(min_buy_ratio, buy_ratio))
    /\ holds(py_le(buy_ratio, max_buy_ratio))

\* total_txns = buys + sells
balanced_total(buys, total_txns) ==
    /\ ~is_exc(total_txns)
    /\ ~py_eq_zero(total_txns)
    /\ in_buy_band(py_truediv(buys, total_txns))

balanced_counts(buys, sells) == balanced_total(buys, py_add(buys, sells))

balanced_h1(h1_txns) ==
    balanced_counts(dict_get(h1_txns, "buys", PyInt(0)), dict_get(h1_txns, "sells", PyInt(0)))

has_balanced_trading(pair_data) ==
    balanced_h1(dict_get(dict_get(pair_data, "txns", EmptyDict), "h1", EmptyDict))

min_market_cap == 1000
max_market_cap == 100000000

\* negative: market_cap <= 0
market_cap_in_range_unfloored(market_cap, negative) ==
    IF is_exc(negative) THEN TRUE
    ELSE IF negative.b THEN TRUE
    ELSE holds(py_le(market_cap, PyInt(max_market_cap)))
market_cap_in_range(market_cap, negative) ==
    IF is_exc(negative) THEN TRUE
    ELSE IF negative.b THEN TRUE
    ELSE /\ holds(py_le(PyInt(min_market_cap), market_cap))
         /\ holds(py_le(market_cap, PyInt(max_market_cap)))

market_cap_reasonable(market_cap) ==
    IF is_exc(market_cap) THEN TRUE
    ELSE IF ~truthy(market_cap) THEN TRUE
    ELSE market_cap_in_range(market_cap, py_le(market_cap, PyInt(0)))

has_reasonable_market_cap(pair_data) ==
    market_cap_reasonable(dict_get(pair_data, "marketCap", PyNone))

\* return 0.1 <= ratio <= 5.0
min_volume_liquidity_ratio_high == Fin(2, 10)
min_volume_liquidity_ratio == Fin(1, 10)

max_volume_liquidity_ratio == Fin(5, 1)

depth_ratio(ratio) ==
    /\ holds(py_le(min_volume_liquidity_ratio, ratio))
    /\ holds(py_le(ratio, max_volume_liquidity_ratio))

depth_of(liquidity_usd, volume_24h) ==
    /\ ~is_exc(liquidity_usd)
    /\ ~is_exc(volume_24h)
    /\ ~f_le(liquidity_usd, Fin(0, 1))
    /\ ~f_le(volume_24h, Fin(0, 1))
    /\ depth_ratio(py_truediv(volume_24h, liquidity_usd))

has_sufficient_liquidity_depth(pair_data) ==
    depth_of(to_float(dict_get(dict_get(pair_data, "liquidity", EmptyDict), "usd", PyInt(0))),
             to_float(dict_get(dict_get(pair_data, "volume", EmptyDict), "h24", PyInt(0))))

\* 1000 * 60 * 60
ms_per_hour == 1000 * 60 * 60

min_age_hours == 1

\* return pair_age_hours >= min_age_hours
old_enough(pair_age_hours) ==
    IF is_exc(pair_age_hours) THEN TRUE
    ELSE holds(py_le(PyInt(min_age_hours), pair_age_hours))

age_reasonable(pair_created_at, current_timestamp) ==
    IF is_exc(pair_created_at) THEN TRUE
    ELSE IF ~truthy(pair_created_at) THEN TRUE
    ELSE old_enough(py_truediv(py_sub(PyInt(current_timestamp), pair_created_at),
                               PyInt(ms_per_hour)))

\* current_timestamp: int(time.time() * 1000), read from the clock
is_pair_age_reasonable(pair_data, current_timestamp) ==
    age_reasonable(dict_get(pair_data, "pairCreatedAt", PyNone), current_timestamp)

suspicious_patterns ==
    {<<"t", "e", "s", "t">>, <<"f", "a", "k", "e">>, <<"s", "c", "a", "m">>, <<"r", "u", "g">>}

\* the three stripped texts
names_present(base_name, base_symbol, quote_symbol) ==
    /\ ~is_exc(base_name)
    /\ ~is_exc(base_symbol)
    /\ ~is_exc(quote_symbol)
    /\ truthy(base_name)
    /\ truthy(base_symbol)
    /\ truthy(quote_symbol)
    /\ \A pattern \in suspicious_patterns :
          /\ ~str_contains(str_lower(base_name.s), pattern)
          /\ ~str_contains(str_lower(base_symbol.s), pattern)
          /\ ~str_contains(str_lower(quote_symbol.s), pattern)

token_info(base_token, quote_token) ==
    names_present(py_strip(dict_get(base_token, "name", PyStr(<<>>))),
                  py_strip(dict_get(base_token, "symbol", PyStr(<<>>))),
                  py_strip(dict_get(quote_token, "symbol", PyStr(<<>>))))

has_token_info(pair_data) ==
    token_info(dict_get(pair_data, "baseToken", EmptyDict),
               dict_get(pair_data, "quoteToken", EmptyDict))

passes_scam_filters(pair_data, current_timestamp) ==
    /\ has_sufficient_trading_activity(pair_data)
    /\ has_balanced_trading(pair_data)
    /\ has_reasonable_market_cap(pair_data)
    /\ has_sufficient_liquidity_depth(pair_data)
    /\ is_pair_age_reasonable(pair_data, current_timestamp)
    /\ has_token_info(pair_data)

\* the records handed to has_balanced_trading: every pair of counts up to
\* MaxCount, one below zero included, and records without 1h counts
MaxCount == 10

Counts == (0 - 1)..MaxCount

with_h1(buys, sells) ==
    PyDict([txns |-> PyDict([h1 |-> PyDict([buys |-> buys, sells |-> sells])])])

BalanceInputs ==
    {with_h1(PyInt(b), PyInt(s)) : b \in Counts, s \in Counts}
        \cup {EmptyDict, PyDict([txns |-> EmptyDict]), PyDict([txns |-> PyNone]),
              PyDict([txns |-> PyDict([h1 |-> EmptyDict])]),
              with_h1(PyStr(<<"3">>), PyStr(<<"4">>)), with_h1(PyNone, PyInt(4)),
              with_h1(Fin(5, 2), Fin(5, 2)), PyNone}

call_has_balanced_trading ==
    /\ call.pc = "ready"
    /\ call.fn = "has_balanced_trading"
    /\ call' = [call EXCEPT !.pc = "done",
                            !.result = PyBool(has_balanced_trading(call.arg))]
    /\ UNCHANGED <<vars, retry, flt, client, fetch, push, runs, app, bybit>>

(***************************************************************************)
(* Part 5: filter_signals (src/utils.py).  The list it returns holds the   *)
(* very objects of the list it is given, so a result is the sequence of    *)
(* the positions in pairs of the records it holds.                         *)
(***************************************************************************)
\* src/config.py
MIN_VOLUME == 50000
MIN_LIQUIDITY == 10000
MIN_PRICE_CHANGE == 5

\* float(data.get(key, 0)) if data.get(key) else 0, present being what
\* data.get(key) returns
metric_value(present, data, key) ==
    IF is_exc(present) THEN present
    ELSE IF truthy(present) THEN to_float(dict_get(data, key, PyInt(0)))
    ELSE Fin(0, 1)

metric(data, key) == metric_value(dict_get(data, key, PyNone), data, key)

\* except (ValueError, TypeError, KeyError)
caught == {"ValueError", "TypeError", "KeyError"}

\* an exception raised in the try statement: the pair is passed over if the
\* except clause names it, and it leaves the function if not
thrown(e) ==
    IF e.e \in caught
    THEN [verdict |-> "skip", why |-> e.e, legit |-> FALSE]
    ELSE [verdict |-> "raise", why |-> e.e, legit |-> FALSE]

\* if volume_24h < MIN_VOLUME: continue
below_volume_floor_inverted(volume_24h, min_volume) == f_lt(Fin(min_volume, 1), volume_24h)
below_volume_floor(volume_24h, min_volume) == f_lt(volume_24h, Fin(min_volume, 1))

\* lines 50-63, the three metrics read
judge(pair, volume_24h, liquidity_usd, price_change_1h, min_volume, current_timestamp) ==
    IF is_exc(volume_24h) THEN thrown(volume_24h)
    ELSE IF is_exc(liquidity_usd) THEN thrown(liquidity_usd)
    ELSE IF is_exc(price_change_1h) THEN thrown(price_change_1h)
    ELSE IF below_volume_floor(volume_24h, min_volume)
    THEN [verdict |-> "skip", why |-> "volume", legit |-> FALSE]
    ELSE IF f_lt(liquidity_usd, Fin(MIN_LIQUIDITY, 1))
    THEN [verdict |-> "skip", why |-> "liquidity", legit |-> FALSE]
    ELSE IF f_lt(f_abs(price_change_1h), Fin(MIN_PRICE_CHANGE, 1))
    THEN [verdict |-> "skip", why |-> "price_change", legit |-> FALSE]
    ELSE IF ~passes_scam_filters(pair, current_timestamp)
    THEN [verdict |-> "skip", why |-> "scam_filters", legit |-> TRUE]
    ELSE [verdict |-> "accept", why |-> "", legit |-> TRUE]

\* one pass of the loop body: whether the pair is appended ("accept"), passed
\* over ("skip") or an exception leaves the loop and the function ("raise");
\* legit tells whether is_legit_token was called
examine(pair, min_volume, current_timestamp) ==
    judge(pair,
          metric(dict_get(pair, "volume", EmptyDict), "h24"),
          metric(dict_get(pair, "liquidity", EmptyDict), "usd"),
          metric(dict_get(pair, "priceChange", EmptyDict), "h1"),
          min_volume, current_timestamp)

\* the key of the sort: float(x.get("volume", {}).get("h24", 0))
sort_key(pair) == to_float(dict_get(dict_get(pair, "volume", EmptyDict), "h24", PyInt(0)))

\* list.sort(key=..., reverse=True) is stable: of two records with equal keys
\* the one that came first stays first.  insert puts position i into a sorted
\* sequence, behind every position whose key is not smaller.
insert_before_equal(pairs, sorted, i) ==
    LET smaller == {j \in 1..Len(sorted) :
                       f_le(sort_key(pairs[sorted[j]]), sort_key(pairs[i]))}
        at      == IF smaller = {} THEN Len(sorted) + 1 ELSE SetMin(smaller)
    IN  SubSeq(sorted, 1, at - 1) \o <<i>> \o SubSeq(sorted, at, Len(sorted))
insert(pairs, sorted, i) ==
    LET smaller == {j \in 1..Len(sorted) :
                       f_lt(sort_key(pairs[sorted[j]]), sort_key(pairs[i]))}
        at      == IF smaller = {} THEN Len(sorted) + 1 ELSE SetMin(smaller)
    IN  SubSeq(sorted, 1, at - 1) \o <<i>> \o SubSeq(sorted, at, Len(sorted))

RECURSIVE sort_by_volume(_, _)
sort_by_volume(pairs, filtered) ==
    IF filtered = <<>> THEN <<>>
    ELSE insert(pairs, sort_by_volume(pairs, SubSeq(filtered, 1, Len(filtered) - 1)),
                filtered[Len(filtered)])

\* the positions in 1..n of the records the loop appends, in the order of
\* the loop
filtered_of(verdicts) ==
    SelectSeq([i \in 1..Len(verdicts) |-> i], LAMBDA i : verdicts[i].verdict = "accept")

Returned(items) == [t |-> "list", items |-> items]

\* line 70 and 71, filtered being the list the loop built
ranked(pairs, filtered) ==
    IF \E k \in 1..Len(filtered) : is_exc(sort_key(pairs[filtered[k]]))
    THEN Exc("TypeError")
    ELSE Returned(sort_by_volume(pairs, filtered))

\* verdicts: what the loop body does with each pair; the first exception that
\* is not caught ends the call
outcome(pairs, verdicts) ==
    IF \E i \in 1..Len(pairs) : verdicts[i].verdict = "raise"
    THEN Exc(verdicts[SetMin({i \in 1..Len(pairs) : verdicts[i].verdict = "raise"})].why)
    ELSE ranked(pairs, filtered_of(verdicts))

\* filter_signals(pairs) under a given MIN_VOLUME and clock
filter_signals(pairs, min_volume, current_timestamp) ==
    outcome(pairs, [i \in 1..Len(pairs) |->
                       examine(pairs[i], min_volume, current_timestamp)])

\* ---- the lists handed to filter_signals --------------------------------
\* a record that passes every test
good_pair(address) ==
    PyDict([pairAddress |-> PyStr(<<address>>),
            baseToken   |-> PyDict([name |-> PyStr(<<"A", "l", "p", "h", "a">>),
                                    symbol |-> PyStr(<<"A", "L", "P">>)]),
            quoteToken  |-> PyDict([symbol |-> PyStr(<<"U", "S", "D", "C">>)]),
            priceUsd    |-> PyStr(<<"0", ".", "5">>),
            volume      |-> PyDict([h24 |-> PyInt(60000)]),
            liquidity   |-> PyDict([usd |-> PyInt(20000)]),
            priceChange |-> PyDict([h1 |-> PyInt(15)]),
            txns        |-> PyDict([h1  |-> PyDict([buys |-> PyInt(30), sells |-> PyInt(20)]),
                                    h24 |-> PyDict([buys |-> PyInt(300), sells |-> PyInt(200)])]),
            marketCap   |-> PyInt(10000)])

\* pair with pair[key] = value, and with key deleted
with(pair, key, value) == [pair EXCEPT !.d[key] = value]

without(pair, key) == [pair EXCEPT !.d[key] = Missing]

with_volume(pair, h24) == with(pair, "volume", PyDict([h24 |-> h24]))

pair_a == good_pair("a")

\* the volume of pair_a, as text; a falling price
pair_b ==
    with(with_volume(good_pair("b"), PyStr(<<"6", "0", "0", "0", "0", ".", "0">>)),
         "priceChange", PyDict([h1 |-> PyInt(0 - 12)]))

pair_c == with_volume(good_pair("c"), PyInt(90000))

\* passes every test of filter_signals, but has no priceUsd
pair_no_price == without(with_volume(good_pair("e"), PyInt(70000)), "priceUsd")

\* float raises ValueError
pair_bad_volume == with_volume(good_pair("f"), PyStr(<<"a", "b", "c">>))

\* not a dict
pair_none == PyNone

\* "volume": None
pair_volume_none == with(good_pair("g"), "volume", PyNone)

pair_no_quote == without(good_pair("h"), "quoteToken")

pair_low_volume == with_volume(good_pair("i"), PyInt(5000))

PairSamples ==
    {pair_a, pair_b, pair_c, pair_no_price, pair_bad_volume, pair_none,
     pair_volume_none, pair_no_quote, pair_low_volume}

MaxPairs == 3        \* the lists hold up to MaxPairs records

RECURSIVE lists_of(_)
lists_of(n) ==
    IF n = 0 THEN {<<>>}
    ELSE LET shorter == lists_of(n - 1)
         IN  shorter \cup {Append(l, p) : l \in {s \in shorter : Len(s) = n - 1},
                                           p \in PairSamples}

\* the values of MIN_VOLUME the list is filtered under: that of config.py and
\* one above it
MinVolumes == {MIN_VOLUME, 80000}

\* the four records of the end-to-end scenario, the fields it leaves open
\* filled as in good_pair, and the MIN_VOLUME it is run under
scenario_a == with(with_volume(good_pair("A"), PyInt(20000)),
                   "liquidity", PyDict([usd |-> PyInt(8000)]))

scenario_b == with_volume(good_pair("B"), PyInt(5000))

scenario_c == without(with_volume(good_pair("C"), PyInt(20000)), "quoteToken")

scenario_d ==
    with(with(with_volume(good_pair("D"), PyInt(50000)),
              "priceChange", PyDict([h1 |-> PyInt(0 - 12)])),
         "txns", PyDict([h1  |-> PyDict([buys |-> PyInt(5), sells |-> PyInt(95)]),
                         h24 |-> PyDict([buys |-> PyInt(300), sells |-> PyInt(200)])]))

scenario_pairs == <<scenario_a, scenario_b, scenario_c, scenario_d>>

ScenarioMinVolumes == {10000}

\* int(time.time() * 1000)
ClockReadings == {2 * ms_per_hour}

NotRun == [t |-> "none", items |-> <<>>]

\* filter_signals(flt.pairs) with MIN_VOLUME = min_volume
call_filter_signals(min_volume) ==
    /\ flt.pc = "ready"
    /\ flt.runs[min_volume] = NotRun
    /\ flt' = [flt EXCEPT !.runs[min_volume] =
                              filter_signals(flt.pairs, min_volume, flt.clock)]
    /\ UNCHANGED <<vars, retry, call, client, fetch, push, runs, app, bybit>>

FilterSignals == \E min_volume \in DOMAIN flt.runs : call_filter_signals(min_volume)

FilterInit ==
    /\ JobInit
    /\ retry = NoCall
    /\ call = NoCall
    /\ client = NoCall
    /\ fetch = NoCall
    /\ push = NoCall
    /\ runs = NoCall
    /\ app = NoCall
    /\ bybit = NoCall
    /\ flt \in {[pc |-> "ready", pairs |-> l, clock |-> c,
                 runs |-> [m \in MinVolumes |-> NotRun]] :
                    l \in lists_of(MaxPairs), c \in ClockReadings}
               \cup {[pc |-> "ready", pairs |-> scenario_pairs, clock |-> c,
                      runs |-> [m \in MinVolumes \cup ScenarioMinVolumes |-> NotRun]] :
                         c \in ClockReadings}

FilterNext == FilterSignals

FilterSpec == FilterInit /\ [][FilterNext]_all_vars

\* the records handed to has_sufficient_trading_activity: 1h and 24h counts on
\* both sides of the two minima, and records with no transaction data
SellSamples == {0, 1, 5}

DayCounts == {<<10, 9>>, <<10, 10>>, <<300, 200>>}

with_txns(h1_buys_, h1_sells_, h24_buys_, h24_sells_) ==
    PyDict([txns |-> PyDict([h1 |-> PyDict([buys |-> h1_buys_, sells |-> h1_sells_]),
                             h24 |-> PyDict([buys |-> h24_buys_, sells |-> h24_sells_])])])

ActivityInputs ==
    {with_txns(PyInt(b), PyInt(s), PyInt(d[1]), PyInt(d[2])) :
        b \in 0..MaxCount, s \in SellSamples, d \in DayCounts}
        \cup {EmptyDict, PyDict([txns |-> EmptyDict]), PyDict([txns |-> PyNone]),
              PyDict([txns |-> PyDict([h24 |-> PyDict([buys |-> PyInt(300),
                                                       sells |-> PyInt(200)])])]),
              with_h1(PyInt(30), PyInt(20)),
              with_txns(PyStr(<<"3">>), PyStr(<<"4">>), PyInt(300), PyInt(200)),
              with_txns(PyNone, PyInt(9), PyInt(300), PyInt(200)), PyNone}

call_has_sufficient_trading_activity ==
    /\ call.pc = "ready"
    /\ call.fn = "has_sufficient_trading_activity"
    /\ call' = [call EXCEPT !.pc = "done",
                            !.result = PyBool(has_sufficient_trading_activity(call.arg))]
    /\ UNCHANGED <<vars, retry, flt, client, fetch, push, runs, app, bybit>>

\* the records handed to has_reasonable_market_cap: caps on both sides of the
\* two bounds, caps that are no number, and records without a cap
CapSamples ==
    {PyInt(v) : v \in {0 - 5, 0, 1, 999, 1000, 1001, 5000, 99999999, 100000000, 100000001}}
        \cup {Fin(0, 1), Fin(1999, 2), Fin(2001, 2), Fin(199999999, 2), Fin(200000001, 2),
              Fin(0 - 1, 2), NaN, PosInf, NegInf, PyBool(TRUE), PyBool(FALSE),
              PyNone, PyStr(<<>>), PyStr(<<"5", "0", "0", "0">>), EmptyDict,
              PyDict([usd |-> PyInt(5000)]), PyList(0), PyList(2)}

MarketCapInputs ==
    {PyDict([marketCap |-> c]) : c \in CapSamples} \cup {EmptyDict, PyNone, PyList(2)}

call_has_reasonable_market_cap ==
    /\ call.pc = "ready"
    /\ call.fn = "has_reasonable_market_cap"
    /\ call' = [call EXCEPT !.pc = "done",
                            !.result = PyBool(has_reasonable_market_cap(call.arg))]
    /\ UNCHANGED <<vars, retry, flt, client, fetch, push, runs, app, bybit>>

\* the records handed to has_sufficient_liquidity_depth: volumes that put the
\* ratio on both sides of the two bounds, values that are not positive, and
\* values that are no number
VolumeSamples ==
    {PyInt(v) : v \in {0 - 1, 0, 999, 1000, 1001, 1500, 1999, 2000, 2001, 49999, 50000, 50001}}
        \cup {Fin(19999, 10), PyStr(<<"1", "5", "0", "0", ".", "5">>), PyStr(<<"a", "b", "c">>),
              PyNone}

LiquiditySamples ==
    {PyInt(10000), PyInt(0), PyInt(0 - 10000), PyInt(3),
     PyStr(<<"1", "0", "0", "0", "0", ".", "0">>), PyNone}

with_depth(volume_24h, liquidity_usd) ==
    PyDict([volume |-> PyDict([h24 |-> volume_24h]),
            liquidity |-> PyDict([usd |-> liquidity_usd])])

DepthInputs ==
    {with_depth(v, l) : v \in VolumeSamples, l \in LiquiditySamples}
        \cup {EmptyDict, PyNone,
              PyDict([volume |-> PyDict([h24 |-> PyInt(1500)])]),
              PyDict([liquidity |-> PyDict([usd |-> PyInt(10000)])]),
              PyDict([volume |-> PyNone, liquidity |-> PyDict([usd |-> PyInt(10000)])])}

call_has_sufficient_liquidity_depth ==
    /\ call.pc = "ready"
    /\ call.fn = "has_sufficient_liquidity_depth"
    /\ call' = [call EXCEPT !.pc = "done",
                            !.result = PyBool(has_sufficient_liquidity_depth(call.arg))]
    /\ UNCHANGED <<vars, retry, flt, client, fetch, push, runs, app, bybit>>

\* the records handed to has_token_info: names and symbols with and without a
\* suspicious substring, in either case, and records without token texts
NameSamples ==
    {<<"A", "l", "p", "h", "a">>,
     <<"T", "e", "s", "t", "C", "o", "i", "n">>,
     <<"m", "y", "F", "A", "K", "E">>,
     <<"S", "c", "a", "m">>,
     <<"R", "U", "G", "p", "u", "l", "l">>,
     <<"H", "o", "n", "e", "y", "P", "o", "t">>,
     <<"D", "e", "a", "d", "C", "a", "t">>,
     <<" ">>,
     <<>>,
     <<" ", "t", "e", "s", "t", " ">>}

BaseSymbolSamples == {<<"A", "L", "P">>, <<"t", "E", "s", "T">>, <<"D", "E", "A", "D">>, <<"R", " ", "U", " ", "G">>}

QuoteSymbolSamples == {<<"U", "S", "D", "C">>, <<"R", "U", "G">>, <<>>}

with_tokens(base_name, base_symbol, quote_symbol) ==
    PyDict([baseToken |-> PyDict([name |-> base_name, symbol |-> base_symbol]),
            quoteToken |-> PyDict([symbol |-> quote_symbol])])

TokenInfoInputs ==
    {with_tokens(PyStr(n), PyStr(s), PyStr(q)) :
        n \in NameSamples, s \in BaseSymbolSamples, q \in QuoteSymbolSamples}
        \cup {EmptyDict, PyNone,
              PyDict([baseToken |-> PyDict([name |-> PyStr(<<"A">>)]),
                      quoteToken |-> PyDict([symbol |-> PyStr(<<"U">>)])]),
              with_tokens(PyNone, PyStr(<<"A">>), PyStr(<<"U">>)),
              with_tokens(PyStr(<<"A">>), PyInt(5), PyStr(<<"U">>)),
              PyDict([baseToken |-> PyNone, quoteToken |-> PyNone])}

call_has_token_info ==
    /\ call.pc = "ready"
    /\ call.fn = "has_token_info"
    /\ call' = [call EXCEPT !.pc = "done", !.result = PyBool(has_token_info(call.arg))]
    /\ UNCHANGED <<vars, retry, flt, client, fetch, push, runs, app, bybit>>

(***************************************************************************)
(* Part 7: the pooled HTTP client (spec 4.3, FetchClient).  The module     *)
(* that holds it is not among the sources; acquire and close follow the    *)
(* specification: acquire returns the open client or constructs one under  *)
(* a mutual-exclusion lock, close closes the client if it is open.  The    *)
(* shutdown that calls close is SafeBotApplication._graceful_shutdown.     *)
(*                                                                         *)
(* client.made counts the clients constructed, numbered 1..made;           *)
(* client.open holds those not closed; client.current is the one the       *)
(* module refers to (0: none); client.lock is the task holding the lock    *)
(* (0: free); client.pc, client.need and client.got are per task.          *)
(***************************************************************************)
NumTasks == 2        \* tasks that acquire the client
MaxClients == 3      \* clients constructed in one run of the model

Tasks == 1..NumTasks

\* the check made under the lock: none exists or the previous one was closed
needs_client(c) == c.current = 0 \/ c.current \notin c.open

\* a task calls acquire() and waits for the lock
acquire_call(t) ==
    /\ client.pc[t] = "idle"
    /\ client' = [client EXCEPT !.pc[t] = "waiting", !.last = "call"]
    /\ UNCHANGED <<vars, retry, call, flt, fetch, push, runs, app, bybit>>

\* the lock is free: the task takes it and looks at the current client
acquire_lock_unguarded(t) ==
    /\ client.pc[t] = "waiting"
    /\ client' = [client EXCEPT !.pc[t] = "locked",
                                !.need[t] = needs_client(client), !.last = "lock"]
    /\ UNCHANGED <<vars, retry, call, flt, fetch, push, runs, app, bybit>>
acquire_lock(t) ==
    /\ client.pc[t] = "waiting"
    /\ client.lock = 0
    /\ client' = [client EXCEPT !.pc[t] = "locked", !.lock = t,
                                !.need[t] = needs_client(client), !.last = "lock"]
    /\ UNCHANGED <<vars, retry, call, flt, fetch, push, runs, app, bybit>>

\* the task constructs a client if the check asked for one
acquire_construct(t) ==
    /\ client.pc[t] = "locked"
    /\ IF client.need[t]
       THEN /\ client.made < MaxClients
            /\ client' = [client EXCEPT !.pc[t] = "built", !.made = @ + 1,
                                        !.current = client.made + 1,
                                        !.open = @ \cup {client.made + 1},
                                        !.last = "construct"]
       ELSE client' = [client EXCEPT !.pc[t] = "built", !.last = "reuse"]
    /\ UNCHANGED <<vars, retry, call, flt, fetch, push, runs, app, bybit>>

\* the task leaves the lock and returns the current client
acquire_return(t) ==
    /\ client.pc[t] = "built"
    /\ client' = [client EXCEPT !.pc[t] = "idle", !.got[t] = client.current,
                                !.lock = IF client.lock = t THEN 0 ELSE @,
                                !.last = "return"]
    /\ UNCHANGED <<vars, retry, call, flt, fetch, push, runs, app, bybit>>

\* close(): closes the underlying client if open; idempotent
close ==
    client' = [client EXCEPT !.open = @ \ {client.current},
                             !.last = IF client.current \in client.open
                                      THEN "closed" ELSE "close_again"]

\* await cleanup()
graceful_shutdown ==
    /\ client # NoCall
    /\ close
    /\ UNCHANGED <<vars, retry, call, flt, fetch, push, runs, app, bybit>>

Acquire ==
    \E t \in Tasks :
        \/ acquire_call(t)
        \/ acquire_lock(t)
        \/ acquire_construct(t)
        \/ acquire_return(t)

ClientInit ==
    /\ JobInit
    /\ retry = NoCall
    /\ call = NoCall
    /\ flt = NoCall
    /\ fetch = NoCall
    /\ push = NoCall
    /\ runs = NoCall
    /\ app = NoCall
    /\ bybit = NoCall
    /\ client = [pc |-> [t \in Tasks |-> "idle"], need |-> [t \in Tasks |-> FALSE],
                 got |-> [t \in Tasks |-> 0], lock |-> 0, current |-> 0, open |-> {},
                 made |-> 0, last |-> "init"]

ClientNext == Acquire \/ graceful_shutdown

ClientSpec == ClientInit /\ [][ClientNext]_all_vars

(***************************************************************************)
(* Part 8: the trending aggregator (spec 4.5).  utils.fetch_dex_data hands *)
(* the call on to dex.screener.fetch_trending_pairs, which is not among    *)
(* the sources; the aggregation follows the specification: per query term  *)
(* keep the records of the target chain that validate_pair_data accepts,   *)
(* at most a fixed number of them, then drop every record whose            *)
(* pairAddress was seen before, then cut the list to the limit.            *)
(***************************************************************************)
target_chain == PyStr(<<"s", "o", "l">>)

PerTermCap == 2      \* records kept per query term

on_target_chain(pair) == dict_get(pair, "chainId", PyNone) = target_chain

first_n(s, n) == SubSeq(s, 1, IF Len(s) < n THEN Len(s) ELSE n)

\* what one query term contributes
kept_of_term(found) ==
    first_n(SelectSeq(found, LAMBDA pair : /\ pair.t = "dict"
                                           /\ on_target_chain(pair)
                                           /\ validate_pair_data(pair) = PyBool(TRUE)),
            PerTermCap)

RECURSIVE merged_terms(_)
merged_terms(results) ==
    IF results = <<>> THEN <<>>
    ELSE kept_of_term(Head(results)) \o merged_terms(Tail(results))

RECURSIVE dedup(_, _)
\* one record of the merged list: address is its pairAddress, rest the
\* records after it, seen the addresses kept so far
dedup_step_unseen(pair, address, rest, seen) ==
    IF ~truthy(address) THEN <<pair>> \o dedup(rest, seen)
    ELSE IF address \in seen THEN dedup(rest, seen)
    ELSE <<pair>> \o dedup(rest, seen)
dedup_step(pair, address, rest, seen) ==
    IF ~truthy(address) THEN <<pair>> \o dedup(rest, seen)
    ELSE IF address \in seen THEN dedup(rest, seen)
    ELSE <<pair>> \o dedup(rest, seen \cup {address})

dedup(pairs, seen) ==
    IF pairs = <<>> THEN <<>>
    ELSE dedup_step(Head(pairs), dict_get(Head(pairs), "pairAddress", PyNone),
                    Tail(pairs), seen)

fetch_trending_pairs(results, limit) ==
    Returned(first_n(dedup(merged_terms(results), {}), limit))

\* utils.fetch_dex_data: return await fetch_trending_pairs()
fetch_dex_data(results, limit) == fetch_trending_pairs(results, limit)

\* what the search returns for a term: records with the same address that
\* differ in volume, a record with another address, one without an address
on_chain(pair) == with(pair, "chainId", target_chain)

FoundSamples ==
    {on_chain(good_pair("a")),
     on_chain(with_volume(good_pair("a"), PyInt(70000))),
     on_chain(good_pair("b")),
     on_chain(without(good_pair("c"), "pairAddress"))}

\* records a term does not contribute: one that is not valid, one of another
\* chain, one that is no dict
not_valid == on_chain(without(good_pair("a"), "priceUsd"))

off_chain == with(good_pair("a"), "chainId", PyStr(<<"e", "t", "h">>))

MaxFound == 2        \* records the search returns for one term

RECURSIVE found_lists(_)
found_lists(n) ==
    IF n = 0 THEN {<<>>}
    ELSE found_lists(n - 1)
            \cup {Append(l, p) : l \in {s \in found_lists(n - 1) : Len(s) = n - 1},
                                 p \in FoundSamples}

Limits == {1, 5}

AggregateInputs ==
    {[results |-> <<first, second>>, limit |-> limit] :
        first \in found_lists(MaxFound), second \in found_lists(MaxFound), limit \in Limits}
        \cup {[results |-> <<<<skipped>> \o first, <<on_chain(good_pair("a"))>>>>,
               limit |-> 5] :
                 first \in found_lists(1), skipped \in {not_valid, off_chain, PyNone}}

call_fetch_dex_data ==
    /\ call.pc = "ready"
    /\ call.fn = "fetch_dex_data"
    /\ call' = [call EXCEPT !.pc = "done",
                            !.result = fetch_dex_data(call.arg.results, call.arg.limit)]
    /\ UNCHANGED <<vars, retry, flt, client, fetch, push, runs, app, bybit>>

(***************************************************************************)
(* Part 9: EnhancedSignalHandler.fetch_signals_with_retry                  *)
(* (src/handlers/alerts.py).  get_filtered_signals is the pipeline behind  *)
(* it; a call of it raises, returns an empty list or returns a list of     *)
(* signals.  fetch.calls is the sequence of what the calls did,            *)
(* fetch.delays the sequence of the sleeps.                                *)
(***************************************************************************)
MaxAttempts == 3     \* the largest max_attempts a call is made with

SignalLists == {"s1", "s2"}

FetchOutcomes ==
    {[kind |-> "raise", signals |-> "none"], [kind |-> "empty", signals |-> "none"]}
        \cup {[kind |-> "signals", signals |-> s] : s \in SignalLists}

\* a call about to run
fetch_of(max_attempts) ==
    [pc |-> "ready", attempt |-> 0, max_attempts |-> max_attempts, calls |-> <<>>,
     delays |-> <<>>, result |-> "none", raised |-> FALSE]

fetch_returns(f, result) == [f EXCEPT !.pc = "done", !.result = result]

\* the for statement takes the next attempt, or the function returns None
\* after the loop
next_attempt(f) ==
    IF f.attempt + 1 < f.max_attempts
    THEN [f EXCEPT !.pc = "sleeping", !.attempt = @ + 1]
    ELSE fetch_returns(f, "none")

\* lines 34-47: what follows a call of get_filtered_signals
after_attempt_reraise(f, reply) ==
    CASE reply.kind = "signals" -> fetch_returns(f, reply.signals)
      [] reply.kind = "empty"   -> next_attempt(f)
      [] reply.kind = "raise"   ->
            IF f.attempt = f.max_attempts - 1
            THEN [f EXCEPT !.pc = "done", !.raised = TRUE]
            ELSE next_attempt(f)
after_attempt(f, reply) ==
    CASE reply.kind = "signals" -> fetch_returns(f, reply.signals)
      [] reply.kind = "empty"   -> next_attempt(f)
      [] reply.kind = "raise"   ->
            IF f.attempt = f.max_attempts - 1
            THEN fetch_returns(f, "none")
            ELSE next_attempt(f)

\* for attempt in range(max_attempts): the first pass, if there is one
fetch_begin ==
    /\ fetch.pc = "ready"
    /\ fetch' = IF fetch.max_attempts > 0 THEN [fetch EXCEPT !.pc = "calling"]
                ELSE fetch_returns(fetch, "none")
    /\ UNCHANGED <<vars, retry, call, flt, client, push, runs, app, bybit>>

\* await asyncio.sleep(2 ** attempt)
fetch_sleep ==
    /\ fetch.pc = "sleeping"
    /\ fetch' = [fetch EXCEPT !.pc = "calling", !.delays = Append(@, 2 ^ fetch.attempt)]
    /\ UNCHANGED <<vars, retry, call, flt, client, push, runs, app, bybit>>

\* signals = await get_filtered_signals(limit=limit)
fetch_call(reply) ==
    /\ fetch.pc = "calling"
    /\ fetch' = after_attempt([fetch EXCEPT !.calls = Append(@, reply)], reply)
    /\ UNCHANGED <<vars, retry, call, flt, client, push, runs, app, bybit>>

FetchSignalsWithRetry ==
    \/ fetch_begin
    \/ fetch_sleep
    \/ \E reply \in FetchOutcomes : fetch_call(reply)

(***************************************************************************)
(* Part 10: the scheduled push jobs: _enhanced_signal_push behind          *)
(* vip_signals_push and public_signals_push (src/handlers/alerts.py) and   *)
(* publish_signals_job (src/jobs/scheduler.py).  push.chat_id is           *)
(* context.job.data, push.sent the calls of context.bot.send_message in    *)
(* the order they were made and push.replies what each of them did,        *)
(* push.slept the sleeps of the send loop, each with the number of sends   *)
(* made before it.  A                                                      *)
(* message is known by its length, its length once stripped, the number of *)
(* its characters that are not blank and whether it holds one of the       *)
(* required indicators; format_signals_message, which is  *)
(* not among the sources, returns any message or raises.                   *)
(***************************************************************************)
VIP_CHANNEL_ID == PyStr(<<"-", "1", "0", "0", "2", "7", "2", "6", "8", "1", "0", "5", "7", "0">>)

PUBLIC_CHANNEL_ID == PyStr(<<"@", "S", "a", "t", "o", "s", "h", "i", "S", "i", "g", "n", "a", "l", "L", "a", "b">>)

ChatIds == {PyNone, PyStr(<<>>), VIP_CHANNEL_ID, PUBLIC_CHANNEL_ID}

\* context.job is None: reading context.job.data raises
NoJob == Exc("AttributeError")

\* update.effective_chat.id of a /signals command
UserChats == {PyInt(1001)}

EnhancedJobs == {"vip_signals_push", "public_signals_push"}

PushJobs == EnhancedJobs \cup {"publish_signals_job"}

NoMessage == [len |-> 0 - 1, stripped |-> 0 - 1, nonblank |-> 0 - 1, indicator |-> FALSE]

\* the literal messages of signals_command: lines 133-141, 146 and 164-166
NoSignalsNotice == [len |-> 204, stripped |-> 204, nonblank |-> 169, indicator |-> FALSE]

FormatErrorNotice == [len |-> 53, stripped |-> 53, nonblank |-> 46, indicator |-> FALSE]

FallbackNotice == [len |-> 90, stripped |-> 90, nonblank |-> 78, indicator |-> FALSE]

Messages ==
    {[len |-> 0, stripped |-> 0, nonblank |-> 0, indicator |-> FALSE],
     [len |-> 12, stripped |-> 5, nonblank |-> 5, indicator |-> TRUE],
     [len |-> 40, stripped |-> 12, nonblank |-> 3, indicator |-> TRUE],
     [len |-> 200, stripped |-> 200, nonblank |-> 170, indicator |-> FALSE],
     [len |-> 200, stripped |-> 200, nonblank |-> 170, indicator |-> TRUE],
     [len |-> 4001, stripped |-> 4001, nonblank |-> 3500, indicator |-> TRUE]}

min_message_length == 10
max_message_length == 4000

\* EnhancedSignalHandler.validate_message_content
validate_message_content_unbounded(message) ==
    IF message.len = 0 \/ message.stripped < min_message_length THEN FALSE
    ELSE IF ~message.indicator THEN FALSE
    ELSE TRUE
validate_message_content(message) ==
    IF message.len = 0 \/ message.stripped < min_message_length THEN FALSE
    ELSE IF ~message.indicator THEN FALSE
    ELSE IF message.len > max_message_length THEN FALSE
    ELSE TRUE

\* what context.bot.send_message does: it returns, or raises with one of the
\* texts the send loop looks for, or raises with another text
SendOutcomes == {"sent", "flood", "chat not found", "bot was blocked", "error"}

push_fetch_attempts == 3
send_max_attempts == 3
command_send_attempts == 2
flood_wait == 60
max_send_delay == 10

\* a trigger about to run
push_of(job, chat_id) ==
    [pc |-> "ready", job |-> job, chat_id |-> chat_id, signals |-> "none",
     message |-> NoMessage, attempt |-> 0, sent |-> <<>>, replies |-> <<>>,
     slept |-> <<>>,
     max_attempts |-> IF job = "signals_command" THEN command_send_attempts
                      ELSE send_max_attempts,
     ended |-> "running"]

push_ends(p, ended) == [p EXCEPT !.pc = "done", !.ended = ended]

\* an exception inside the try statement of a push callback: except Exception
\* logs it and the callback returns; log_function_call around the callback
\* would raise again what the callback raised
push_fails_reraise(p) == push_ends(p, "raised")
push_fails(p) == push_ends(p, "error")

\* lines 203-216: chat_id = context.job.data; return if there is none; then
\* the fetch begins
enhanced_start(p) ==
    IF is_exc(p.chat_id) THEN push_fails(p)
    ELSE IF ~truthy(p.chat_id) THEN push_ends(p, "no_chat_id")
    ELSE [p EXCEPT !.pc = "fetching"]

push_start ==
    /\ push.pc = "ready"
    /\ push.job \in EnhancedJobs
    /\ push' = enhanced_start(push)
    /\ fetch' = IF push'.pc = "fetching" THEN fetch_of(push_fetch_attempts) ELSE fetch
    /\ UNCHANGED <<vars, retry, call, flt, client, runs, app, bybit>>

\* lines 213-221: the fetch has returned
push_fetched ==
    /\ push.pc = "fetching"
    /\ push.job \in EnhancedJobs
    /\ fetch.pc = "done"
    /\ push' = IF fetch.raised THEN push_fails(push)
               ELSE IF fetch.result = "none" THEN push_ends(push, "no_signals")
               ELSE [push EXCEPT !.pc = "formatting", !.signals = fetch.result]
    /\ UNCHANGED <<vars, retry, call, flt, client, fetch, runs, app, bybit>>

\* lines 224-229: format_signals_message raises or returns a message, which
\* is validated
push_format_raises ==
    /\ push.pc = "formatting"
    /\ push' = push_fails(push)
    /\ UNCHANGED <<vars, retry, call, flt, client, fetch, runs, app, bybit>>

push_format(message) ==
    /\ push.pc = "formatting"
    /\ push' = IF push.job \in EnhancedJobs /\ ~validate_message_content(message)
               THEN push_ends([push EXCEPT !.message = message], "invalid_message")
               ELSE [push EXCEPT !.pc = "sending", !.message = message]
    /\ UNCHANGED <<vars, retry, call, flt, client, fetch, runs, app, bybit>>

\* min(2 ** attempt, 10)
send_delay(attempt) ==
    IF 2 ^ attempt < max_send_delay THEN 2 ^ attempt ELSE max_send_delay

\* await asyncio.sleep(delay)
slept_for(p, delay) ==
    [p EXCEPT !.slept = Append(@, [delay |-> delay, sends |-> Len(p.sent)])]

\* the sleep before a send that is not the first
before_send(p) == IF p.attempt > 0 THEN slept_for(p, send_delay(p.attempt)) ELSE p

\* the for statement of send_message_with_retry takes the next attempt, or
\* the function returns False after the loop
next_send(p) ==
    IF p.attempt + 1 < p.max_attempts THEN [p EXCEPT !.attempt = @ + 1]
    ELSE push_ends(p, "not_sent")

\* send_message_with_retry, lines 56-93: one pass of the loop
send_attempt_retry_all(p, reply) ==
    CASE reply = "sent"            -> push_ends(p, "published")
      [] reply = "flood"           -> next_send(slept_for(p, flood_wait))
      [] reply = "chat not found"  -> next_send(p)
      [] reply = "bot was blocked" -> next_send(p)
      [] reply = "error"           -> next_send(p)
send_attempt(p, reply) ==
    CASE reply = "sent"            -> push_ends(p, "published")
      [] reply = "flood"           -> next_send(slept_for(p, flood_wait))
      [] reply = "chat not found"  -> push_ends(p, "not_sent")
      [] reply = "bot was blocked" -> push_ends(p, "not_sent")
      [] reply = "error"           -> next_send(p)

\* publish_signals_job, lines 23-32: one call of send_message, an exception
\* of which is logged
publish_attempt(p, reply) ==
    IF reply = "sent" THEN push_ends(p, "published") ELSE push_fails(p)

\* _enhanced_signal_push, lines 232-240: success = await send_message_with_retry(...)
after_send(p) ==
    IF p.job \in EnhancedJobs /\ p.pc = "done" /\ p.ended = "published"
    THEN [p EXCEPT !.pc = "logging", !.ended = "running"]
    ELSE p

posted(p) == [p EXCEPT !.sent = Append(@, [chat_id |-> p.chat_id, message |-> p.message])]

answered(p, reply) == [p EXCEPT !.replies = Append(@, reply)]

push_send(reply) ==
    /\ push.pc = "sending"
    /\ push' = IF push.job = "publish_signals_job"
               THEN publish_attempt(answered(posted(push), reply), reply)
               ELSE after_send(send_attempt(answered(posted(before_send(push)), reply), reply))
    /\ UNCHANGED <<vars, retry, call, flt, client, fetch, runs, app, bybit>>

\* lines 240-254: the details of the published signals are collected for the
\* log, which raises when a signal is not what the loop expects
push_log_details(details) ==
    /\ push.pc = "logging"
    /\ push' = IF details = "logged" THEN push_ends(push, "published") ELSE push_fails(push)
    /\ UNCHANGED <<vars, retry, call, flt, client, fetch, runs, app, bybit>>

\* publish_signals_job, lines 13-19: channel_id = context.job.data, then
\* get_filtered_signals() raises, returns nothing or returns signals
publish_fetch(reply) ==
    /\ push.pc = "ready"
    /\ push.job = "publish_signals_job"
    /\ push' = CASE is_exc(push.chat_id) -> push_fails(push)
                 [] ~is_exc(push.chat_id) /\ reply.kind = "raise" -> push_fails(push)
                 [] ~is_exc(push.chat_id) /\ reply.kind = "empty" ->
                       push_ends(push, "no_signals")
                 [] ~is_exc(push.chat_id) /\ reply.kind = "signals" ->
                       [push EXCEPT !.pc = "formatting", !.signals = reply.signals]
    /\ UNCHANGED <<vars, retry, call, flt, client, fetch, runs, app, bybit>>

\* a call of send_message_with_retry by another caller: the loop begins, or
\* range(max_attempts) is empty and the function returns False
send_of(chat_id, message, max_attempts) ==
    [push_of("send_message_with_retry", chat_id) EXCEPT
        !.pc = "send_ready", !.message = message, !.max_attempts = max_attempts]

send_begin ==
    /\ push.pc = "send_ready"
    /\ push' = IF push.max_attempts > 0 THEN [push EXCEPT !.pc = "sending"]
               ELSE push_ends(push, "not_sent")
    /\ UNCHANGED <<vars, retry, call, flt, client, fetch, runs, app, bybit>>

\* signals_command, lines 125-129: the typing indicator, then the fetch
command_start(typing) ==
    /\ push.pc = "ready"
    /\ push.job = "signals_command"
    /\ push' = [push EXCEPT !.pc = IF typing = "sent" THEN "fetching" ELSE "fallback"]
    /\ fetch' = IF typing = "sent" THEN fetch_of(push_fetch_attempts) ELSE fetch
    /\ UNCHANGED <<vars, retry, call, flt, client, runs, app, bybit>>

\* lines 146-147: a message that fails the validation is replaced
validated(message) ==
    IF validate_message_content(message) THEN message ELSE FormatErrorNotice

\* lines 131-147: the notice for no signals, or the formatted signals
command_fetched ==
    /\ push.pc = "fetching"
    /\ push.job = "signals_command"
    /\ fetch.pc = "done"
    /\ push' = IF fetch.raised THEN [push EXCEPT !.pc = "fallback"]
               ELSE IF fetch.result = "none"
               THEN [push EXCEPT !.pc = "sending", !.message = validated(NoSignalsNotice)]
               ELSE [push EXCEPT !.pc = "command_formatting", !.signals = fetch.result]
    /\ UNCHANGED <<vars, retry, call, flt, client, fetch, runs, app, bybit>>

command_format_raises ==
    /\ push.pc = "command_formatting"
    /\ push' = [push EXCEPT !.pc = "fallback"]
    /\ UNCHANGED <<vars, retry, call, flt, client, fetch, runs, app, bybit>>

command_format(message) ==
    /\ push.pc = "command_formatting"
    /\ push' = [push EXCEPT !.pc = "sending", !.message = validated(message)]
    /\ UNCHANGED <<vars, retry, call, flt, client, fetch, runs, app, bybit>>

\* lines 158-168: the fallback reply, an exception of which is logged
command_fallback ==
    /\ push.pc = "fallback"
    /\ push' = push_ends(posted([push EXCEPT !.message = FallbackNotice]), "error")
    /\ UNCHANGED <<vars, retry, call, flt, client, fetch, runs, app, bybit>>

SignalsCommand ==
    \/ \E typing \in {"sent", "error"} : command_start(typing)
    \/ command_fetched
    \/ command_format_raises
    \/ \E message \in Messages : command_format(message)
    \/ command_fallback

EnhancedSignalPush ==
    \/ push_start
    \/ push_fetched
    \/ push_format_raises
    \/ \E message \in Messages : push_format(message)
    \/ \E reply \in SendOutcomes : push_send(reply)
    \/ \E details \in {"logged", "error"} : push_log_details(details)

PublishSignalsJob == \E reply \in FetchOutcomes : publish_fetch(reply)

\* a trigger of one of the jobs with some job data, or a call of
\* fetch_signals_with_retry by another caller
PushInit ==
    /\ JobInit
    /\ retry = NoCall
    /\ call = NoCall
    /\ flt = NoCall
    /\ client = NoCall
    /\ runs = NoCall
    /\ app = NoCall
    /\ bybit = NoCall
    /\ \/ /\ push \in {push_of(job, chat_id) : job \in PushJobs, chat_id \in ChatIds \cup {NoJob}}
                      \cup {push_of("signals_command", chat_id) : chat_id \in UserChats}
                      \cup {send_of(chat_id, message, max_attempts) :
                                chat_id \in {VIP_CHANNEL_ID}, message \in {NoSignalsNotice},
                                max_attempts \in 0..MaxAttempts}
          /\ fetch = NoCall
       \/ /\ push = NoCall
          /\ fetch \in {fetch_of(max_attempts) : max_attempts \in 0..MaxAttempts}

PushNext ==
    \/ FetchSignalsWithRetry
    \/ EnhancedSignalPush
    \/ PublishSignalsJob
    \/ SignalsCommand
    \/ send_begin

PushSpec == PushInit /\ [][PushNext]_all_vars

(***************************************************************************)
(* Part 11: SafeBotApplication._validate_webhook_url (src/dex/screener.py) *)
(* with urllib.parse.urlparse as far as the function reads its result:     *)
(* scheme, netloc and hostname.  The URLs are without balanced brackets    *)
(* and without characters outside ASCII.                                    *)
(***************************************************************************)
first_of(s, cs) ==
    IF \E i \in 1..Len(s) : s[i] \in cs
    THEN SetMin({i \in 1..Len(s) : s[i] \in cs})
    ELSE 0

last_of(s, cs) ==
    IF \E i \in 1..Len(s) : s[i] \in cs
    THEN SetMax({i \in 1..Len(s) : s[i] \in cs})
    ELSE 0

str_from(s, i) == SubSeq(s, i, Len(s))

str_before(s, i) == SubSeq(s, 1, i - 1)

is_alpha(c) == \E i \in 1..Len(UpperCase) : c = UpperCase[i] \/ c = LowerCase[i]

\* scheme_chars of urllib.parse
is_scheme_char(c) == is_alpha(c) \/ is_digit(c) \/ c \in {"+", "-", "."}

\* url.lstrip(_WHATWG_C0_CONTROL_OR_SPACE), then tab, CR and LF removed
url_lstrip(url) ==
    IF \A i \in 1..Len(url) : url[i] \in {" ", "\t", "\n", "\r"} THEN <<>>
    ELSE str_from(url, SetMin({i \in 1..Len(url) : url[i] \notin {" ", "\t", "\n", "\r"}}))

url_clean(url) == SelectSeq(url_lstrip(url), LAMBDA c : c \notin {"\t", "\r", "\n"})

\* i = url.find(':'); the text before it is a scheme when it begins with a
\* letter and holds scheme characters only
has_scheme(url, colon) ==
    /\ colon > 1
    /\ is_alpha(url[1])
    /\ \A k \in 1..(colon - 1) : is_scheme_char(url[k])

\* _splitnetloc(url, 2) when url[:2] == '//'
netloc_end(s, delim) == IF delim = 0 THEN s ELSE str_before(s, delim)

netloc_of(rest) ==
    IF Len(rest) >= 2 /\ rest[1] = "/" /\ rest[2] = "/"
    THEN netloc_end(str_from(rest, 3), first_of(str_from(rest, 3), {"/", "?", "#"}))
    ELSE <<>>

\* hostname: after the last '@', before the first ':', in lower case; None
\* when that is empty
hostinfo_of(netloc) == str_from(netloc, last_of(netloc, {"@"}) + 1)

host_text(hostinfo, colon) == IF colon = 0 THEN hostinfo ELSE str_before(hostinfo, colon)

port_text(hostinfo, colon) == IF colon = 0 THEN <<>> ELSE str_from(hostinfo, colon + 1)

hostname_of(netloc) ==
    IF host_text(hostinfo_of(netloc), first_of(hostinfo_of(netloc), {":"})) = <<>> THEN PyNone
    ELSE PyStr(str_lower(host_text(hostinfo_of(netloc), first_of(hostinfo_of(netloc), {":"}))))

parse_result(scheme, netloc) ==
    IF (first_of(netloc, {"["}) > 0) # (first_of(netloc, {"]"}) > 0) THEN Exc("ValueError")
    ELSE [t |-> "parsed", scheme |-> scheme, netloc |-> netloc, hostname |-> hostname_of(netloc)]

split_scheme(url, colon) ==
    IF has_scheme(url, colon)
    THEN parse_result(str_lower(str_before(url, colon)), netloc_of(str_from(url, colon + 1)))
    ELSE parse_result(<<>>, netloc_of(url))

urlparse(url) == split_scheme(url_clean(url), first_of(url_clean(url), {":"}))

webhook_schemes == {<<"h", "t", "t", "p">>, <<"h", "t", "t", "p", "s">>}

local_hosts == {PyStr(<<"l", "o", "c", "a", "l", "h", "o", "s", "t">>), PyStr(<<"1", "2", "7", ".", "0", ".", "0", ".", "1">>)}

\* lines 151-166: the tests on the parsed URL; production is
\* os.getenv('ENVIRONMENT') == 'production'
webhook_checks(parsed, production) ==
    IF is_exc(parsed) THEN FALSE
    ELSE IF parsed.scheme \notin webhook_schemes THEN FALSE
    ELSE IF parsed.netloc = <<>> THEN FALSE
    ELSE IF parsed.hostname \in local_hosts /\ production THEN FALSE
    ELSE TRUE

_validate_webhook_url(url, production) ==
    IF url = <<>> THEN FALSE ELSE webhook_checks(urlparse(url), production)

UrlSamples ==
    {<<"h", "t", "t", "p", "s", ":", "/", "/", "e", "x", "a", "m", "p", "l", "e", ".", "c", "o", "m">>,
     <<"h", "t", "t", "p", ":", "/", "/", "e", "x", "a", "m", "p", "l", "e", ".", "c", "o", "m", ":", "8", "0", "8", "0">>,
     <<"f", "t", "p", ":", "/", "/", "e", "x", "a", "m", "p", "l", "e", ".", "c", "o", "m">>,
     <<"h", "t", "t", "p", "s", ":", "/", "/">>,
     <<"h", "t", "t", "p", "s", ":", "/", "/", "e", "x", "a", "m", "p", "l", "e", ".", "c", "o", "m", ":", "a", "b", "c">>,
     <<"n", "o", "t", " ", "a", " ", "u", "r", "l">>,
     <<"H", "T", "T", "P", ":", "/", "/", "e", "x", "a", "m", "p", "l", "e", ".", "c", "o", "m">>,
     <<"h", "t", "t", "p", "s", ":", "/", "/", ":", "8", "0", "8", "0">>,
     <<"h", "t", "t", "p", "s", ":", "/", "/", "l", "o", "c", "a", "l", "h", "o", "s", "t">>,
     <<"h", "t", "t", "p", ":", "/", "/", "1", "2", "7", ".", "0", ".", "0", ".", "1", ":", "8", "0", "0", "0", "/", "h", "o", "o", "k">>,
     <<" ", "h", "t", "t", "p", "s", ":", "/", "/", "e", "x", "a", "m", "p", "l", "e", ".", "c", "o", "m">>,
     <<"h", "t", "t", "p", "s", ":", "/", "/", "[", ":", ":", "1">>,
     <<"h", "t", "t", "p", "s", ":", "/", "/", "b", "o", "t", "@", "E", "x", "a", "m", "p", "l", "e", ".", "c", "o", "m", ":", "4", "4", "3", "/", "h", "o", "o", "k", "?", "x", "#", "y">>,
     <<>>,
     <<"h", "t", "t", "p", "s", ":", "e", "x", "a", "m", "p", "l", "e", ".", "c", "o", "m">>,
     <<"/", "/", "e", "x", "a", "m", "p", "l", "e", ".", "c", "o", "m">>,
     <<"h", "t", "\t", "t", "p", "s", ":", "/", "/", "e", "x", "a", "m", "p", "l", "e", ".", "c", "o", "m">>,
     <<"1", "h", "t", "t", "p", ":", "/", "/", "e", "x", "a", "m", "p", "l", "e", ".", "c", "o", "m">>}

WebhookInputs == {[url |-> url, production |-> p] : url \in UrlSamples, p \in BOOLEAN}

call_validate_webhook_url ==
    /\ call.pc = "ready"
    /\ call.fn = "_validate_webhook_url"
    /\ call' = [call EXCEPT !.pc = "done",
                            !.result = PyBool(_validate_webhook_url(call.arg.url,
                                                                    call.arg.production))]
    /\ UNCHANGED <<vars, retry, flt, client, fetch, push, runs, app, bybit>>

(***************************************************************************)
(* Part 12: the two push jobs registered at startup, their triggers        *)
(* interleaved at the awaits.  SafeBotApplication._setup_handlers          *)
(* (src/bot.py) registers vip_signals_push and public_signals_push,        *)
(* schedule_jobs (src/jobs/scheduler.py) registers publish_signals_job     *)
(* twice.  runs.of[j] is the trigger of job j, a record as push is; the    *)
(* message it formats carries the vip argument it was formatted with.      *)
(***************************************************************************)
RegisteredJobs == {"vip_signals", "public_signals"}

Startups == {"bot", "main"}

\* callback and data of a registered job
registered_swapped(startup, j) ==
    [callback |-> IF startup = "main" THEN "publish_signals_job"
                  ELSE IF j = "vip_signals" THEN "vip_signals_push"
                  ELSE "public_signals_push",
     data |-> IF j = "vip_signals" THEN PUBLIC_CHANNEL_ID ELSE VIP_CHANNEL_ID]
registered(startup, j) ==
    [callback |-> IF startup = "main" THEN "publish_signals_job"
                  ELSE IF j = "vip_signals" THEN "vip_signals_push"
                  ELSE "public_signals_push",
     data |-> IF j = "vip_signals" THEN VIP_CHANNEL_ID ELSE PUBLIC_CHANNEL_ID]

\* the vip argument of format_signals_message in a trigger
is_vip(p) ==
    IF p.job = "publish_signals_job" THEN p.chat_id = VIP_CHANNEL_ID
    ELSE p.job = "vip_signals_push"

RunMessages ==
    {[len |-> 200, stripped |-> 200, nonblank |-> 170, indicator |-> TRUE],
     [len |-> 200, stripped |-> 200, nonblank |-> 170, indicator |-> FALSE]}

format_signals_message(message, vip) ==
    [len |-> message.len, stripped |-> message.stripped, nonblank |-> message.nonblank,
     indicator |-> message.indicator, vip |-> vip]

\* the context of a trigger: context.job is the job that was registered
triggered(startup, j) == push_of(registered(startup, j).callback, registered(startup, j).data)

\* fetch_signals_with_retry has returned, or get_filtered_signals has returned
\* or raised
run_fetched(p, reply) ==
    CASE reply.kind = "signals" -> [p EXCEPT !.pc = "formatting", !.signals = reply.signals]
      [] reply.kind = "empty"   -> push_ends(p, "no_signals")
      [] reply.kind = "raise"   ->
            IF p.job = "publish_signals_job" THEN push_fails(p) ELSE push_ends(p, "no_signals")

run_formatted(p, message) ==
    IF p.job \in EnhancedJobs /\ ~validate_message_content(message)
    THEN push_ends([p EXCEPT !.message = message], "invalid_message")
    ELSE [p EXCEPT !.pc = "sending", !.message = message]

run_sends(p, reply) ==
    IF p.job = "publish_signals_job"
    THEN publish_attempt(answered(posted(p), reply), reply)
    ELSE after_send(send_attempt(answered(posted(before_send(p)), reply), reply))

\* one step of the trigger of job j, up to its next await
run_step(j, p) ==
    /\ runs' = [runs EXCEPT !.of[j] = p]
    /\ UNCHANGED <<vars, retry, call, flt, client, fetch, push, app, bybit>>

run_start(j) ==
    /\ runs.of[j].pc = "ready"
    /\ run_step(j, IF runs.of[j].job \in EnhancedJobs THEN enhanced_start(runs.of[j])
                   ELSE [runs.of[j] EXCEPT !.pc = "fetching"])

run_fetch(j, reply) ==
    /\ runs.of[j].pc = "fetching"
    /\ run_step(j, run_fetched(runs.of[j], reply))

run_format(j, message) ==
    /\ runs.of[j].pc = "formatting"
    /\ run_step(j, run_formatted(runs.of[j], format_signals_message(message, is_vip(runs.of[j]))))

run_format_raises(j) ==
    /\ runs.of[j].pc = "formatting"
    /\ run_step(j, push_fails(runs.of[j]))

run_send(j, reply) ==
    /\ runs.of[j].pc = "sending"
    /\ run_step(j, run_sends(runs.of[j], reply))

run_log_details(j, details) ==
    /\ runs.of[j].pc = "logging"
    /\ run_step(j, IF details = "logged" THEN push_ends(runs.of[j], "published")
                   ELSE push_fails(runs.of[j]))

RunInit ==
    /\ JobInit
    /\ retry = NoCall
    /\ call = NoCall
    /\ flt = NoCall
    /\ client = NoCall
    /\ fetch = NoCall
    /\ push = NoCall
    /\ app = NoCall
    /\ bybit = NoCall
    /\ runs \in {[startup |-> startup, of |-> [j \in RegisteredJobs |-> triggered(startup, j)]] :
                    startup \in Startups}

RunNext ==
    \E j \in RegisteredJobs :
        \/ run_start(j)
        \/ \E reply \in FetchOutcomes : run_fetch(j, reply)
        \/ \E message \in RunMessages : run_format(j, message)
        \/ run_format_raises(j)
        \/ \E reply \in SendOutcomes : run_send(j, reply)
        \/ \E details \in {"logged", "error"} : run_log_details(j, details)

RunSpec == RunInit /\ [][RunNext]_all_vars

(***************************************************************************)
(* Part 13: SafeBotApplication, the run and its shutdown                   *)
(* (src/dex/screener.py).  app.pc is the position of run_polling or        *)
(* run_webhook, app.tasks the positions of the _graceful_shutdown tasks    *)
(* the signal handler has created, app.event the shutdown event,           *)
(* app.stops and app.cleanups the calls of application.stop() and of the   *)
(* HTTP cleanup.  A call of the application or of the cleanup returns or   *)
(* raises.                                                                  *)
(***************************************************************************)
MaxSignals == 2      \* the signals delivered to one run

Modes == {"polling", "webhook"}

Replies == {"ok", "raise"}

app_of(mode) ==
    [mode |-> mode, pc |-> "initialize", failed |-> FALSE, event |-> FALSE, signals |-> 0,
     tasks |-> <<>>, stops |-> 0, cleanups |-> 0, result |-> "running"]

\* lines 238-241: await self.application.stop(); an exception leaves the try
\* statement by the handler at 256, past the cleanup and past the set()
stopped(a) == [a EXCEPT !.stops = @ + 1]

after_stop(reply) == IF reply = "ok" THEN "cleanup" ELSE "done"

\* lines 243-254: await cleanup(), whose exception is logged; then
\* self._shutdown_event.set()
cleaned(a) == [a EXCEPT !.cleanups = @ + 1, !.event = TRUE]

\* lines 226-228: signal_handler creates a task that runs _graceful_shutdown
signal_handler ==
    /\ app.pc # "ended"
    /\ app.signals < MaxSignals
    /\ app' = [app EXCEPT !.signals = @ + 1, !.tasks = Append(@, "stop")]
    /\ UNCHANGED <<vars, retry, call, flt, client, fetch, push, runs, bybit>>

task_stop(i, reply) ==
    /\ app.pc # "ended"
    /\ app.tasks[i] = "stop"
    /\ app' = [stopped(app) EXCEPT !.tasks[i] = after_stop(reply)]
    /\ UNCHANGED <<vars, retry, call, flt, client, fetch, push, runs, bybit>>

task_cleanup(i, reply) ==
    /\ app.pc # "ended"
    /\ app.tasks[i] = "cleanup"
    /\ app' = [cleaned(app) EXCEPT !.tasks[i] = "done"]
    /\ UNCHANGED <<vars, retry, call, flt, client, fetch, push, runs, bybit>>

\* except Exception: raise, then the finally clause
run_raises(a) == [a EXCEPT !.pc = "finally_stop", !.failed = TRUE]

\* lines 333-334 and 370-371
application_initialize(reply) ==
    /\ app.pc = "initialize"
    /\ app' = IF reply = "ok" THEN [app EXCEPT !.pc = "start"] ELSE run_raises(app)
    /\ UNCHANGED <<vars, retry, call, flt, client, fetch, push, runs, bybit>>

application_start(reply) ==
    /\ app.pc = "start"
    /\ app' = IF reply = "ok" THEN [app EXCEPT !.pc = "serve"] ELSE run_raises(app)
    /\ UNCHANGED <<vars, retry, call, flt, client, fetch, push, runs, bybit>>

\* lines 340-346: start_polling, after which run_polling waits for the event
start_polling(reply) ==
    /\ app.pc = "serve"
    /\ app.mode = "polling"
    /\ app' = IF reply = "ok" THEN [app EXCEPT !.pc = "waiting"] ELSE run_raises(app)
    /\ UNCHANGED <<vars, retry, call, flt, client, fetch, push, runs, bybit>>

\* lines 351-354: await self._shutdown_event.wait(); monitor_task.cancel()
shutdown_event_wait ==
    /\ app.pc = "waiting"
    /\ app.event
    /\ app' = [app EXCEPT !.pc = "finally_stop"]
    /\ UNCHANGED <<vars, retry, call, flt, client, fetch, push, runs, bybit>>

\* lines 377-390: application.run_webhook returns or raises
application_run_webhook(reply) ==
    /\ app.pc = "serve"
    /\ app.mode = "webhook"
    /\ app' = IF reply = "ok" THEN [app EXCEPT !.pc = "finally_stop"] ELSE run_raises(app)
    /\ UNCHANGED <<vars, retry, call, flt, client, fetch, push, runs, bybit>>

\* finally: await self._graceful_shutdown()
finally_stop(reply) ==
    /\ app.pc = "finally_stop"
    /\ app' = [stopped(app) EXCEPT !.pc = IF reply = "ok" THEN "finally_cleanup" ELSE "return"]
    /\ UNCHANGED <<vars, retry, call, flt, client, fetch, push, runs, bybit>>

finally_cleanup(reply) ==
    /\ app.pc = "finally_cleanup"
    /\ app' = [cleaned(app) EXCEPT !.pc = "return"]
    /\ UNCHANGED <<vars, retry, call, flt, client, fetch, push, runs, bybit>>

\* the function returns, or the exception of its body goes on to start()
run_ends ==
    /\ app.pc = "return"
    /\ app' = [app EXCEPT !.pc = "ended", !.result = IF app.failed THEN "raised" ELSE "returned"]
    /\ UNCHANGED <<vars, retry, call, flt, client, fetch, push, runs, bybit>>

GracefulShutdownTask ==
    \E i \in DOMAIN app.tasks : \E reply \in Replies : task_stop(i, reply) \/ task_cleanup(i, reply)

RunApplication ==
    \/ \E reply \in Replies : application_initialize(reply)
    \/ \E reply \in Replies : application_start(reply)
    \/ \E reply \in Replies : start_polling(reply)
    \/ shutdown_event_wait
    \/ \E reply \in Replies : application_run_webhook(reply)
    \/ \E reply \in Replies : finally_stop(reply)
    \/ \E reply \in Replies : finally_cleanup(reply)
    \/ run_ends

ShutdownInit ==
    /\ JobInit
    /\ retry = NoCall
    /\ call = NoCall
    /\ flt = NoCall
    /\ client = NoCall
    /\ fetch = NoCall
    /\ push = NoCall
    /\ runs = NoCall
    /\ bybit = NoCall
    /\ app \in {app_of(mode) : mode \in Modes}

ShutdownNext == signal_handler \/ GracefulShutdownTask \/ RunApplication

ShutdownSpec == ShutdownInit /\ [][ShutdownNext]_all_vars

\* the event loop runs every task that can run
ShutdownLiveSpec ==
    /\ ShutdownSpec
    /\ WF_all_vars(GracefulShutdownTask)
    /\ WF_all_vars(RunApplication)

(***************************************************************************)
(* Part 14: bybit_alert_job (src/jobs/bybit.py) with fetch_ticker and      *)
(* extract_change_pct (src/bybit/signals.py).  bybit.i is the position of  *)
(* the loop in BYBIT_SYMBOLS, bybit.log what was done for each symbol:     *)
(* the ticker fetch_ticker returned, the change, whether send_message was  *)
(* called and what it did.                                                  *)
(***************************************************************************)
BYBIT_SYMBOLS == <<"BTCUSDT", "ETHUSDT">>

BYBIT_ALERT_PERCENT == Fin(5, 1)

\* what the request of fetch_ticker gives: an exception, or the list of the
\* result
result_list(list) == [t |-> "items", list |-> list]

TickerSamples ==
    {PyDict([price24hPcnt |-> PyStr(<<"0", ".", "0", "5">>), lastPrice |-> PyStr(<<"1", "0", "0">>)]),
     PyDict([price24hPcnt |-> PyStr(<<"0", ".", "0", "4", "9">>), lastPrice |-> PyStr(<<"1", "0", "0">>)]),
     PyDict([price24hPcnt |-> PyStr(<<"-", "0", ".", "0", "6", "2">>), lastPrice |-> PyStr(<<"a", "b", "c">>)]),
     PyDict([price24hPcnt |-> PyStr(<<"a", "b", "c">>), lastPrice |-> PyStr(<<"1">>)]),
     PyDict([lastPrice |-> PyStr(<<"1">>)]),
     PyDict([price24hPcnt |-> PyStr(<<"n", "a", "n">>), lastPrice |-> PyStr(<<"1">>)]),
     PyDict([price24hPcnt |-> PyStr(<<"i", "n", "f">>), lastPrice |-> PyStr(<<"1">>)]),
     PyDict([price24hPcnt |-> PyNone, lastPrice |-> PyInt(7)]),
     PyDict([price24hPcnt |-> NaN]),
     PyStr(<<"x">>),
     EmptyDict}

Responses ==
    {Exc("HTTPStatusError"), result_list(<<>>)} \cup {result_list(<<ticker>>) : ticker \in TickerSamples}

\* fetch_ticker, lines 14-28: items[0] if items else None; None after an
\* exception
fetch_ticker(response) ==
    IF is_exc(response) THEN PyNone
    ELSE IF response.list = <<>> THEN PyNone
    ELSE response.list[1]

\* a float times 100
times_100(a) == IF a.c = "fin" THEN Fin(a.n * 100, a.d) ELSE a

\* extract_change_pct, lines 31-37: float(ticker.get("price24hPcnt", 0)) * 100,
\* 0.0 after an exception
change_of(parsed) == IF is_exc(parsed) THEN Fin(0, 1) ELSE times_100(parsed)

extract_change_pct(ticker) == change_of(py_float(dict_get(ticker, "price24hPcnt", PyInt(0))))

\* lines 20-23 of the job: float(ticker.get("lastPrice", 0)), 0.0 after an
\* exception
price_of(parsed) == IF is_exc(parsed) THEN Fin(0, 1) ELSE parsed

last_price(ticker) == price_of(py_float(dict_get(ticker, "lastPrice", PyInt(0))))

\* if abs(change) < BYBIT_ALERT_PERCENT: continue
below_alert_percent(change) == f_lt(f_abs(change), BYBIT_ALERT_PERCENT)

bybit_of == [pc |-> "fetch", i |-> 1, log |-> <<>>, ended |-> "running"]

\* the for statement takes the next symbol, or the job returns
next_symbol(b) ==
    IF b.i < Len(BYBIT_SYMBOLS) THEN [b EXCEPT !.pc = "fetch", !.i = @ + 1]
    ELSE [b EXCEPT !.pc = "done", !.ended = "returned"]

logged(b, ticker, change, alert) ==
    [b EXCEPT !.log = Append(@, [symbol |-> BYBIT_SYMBOLS[b.i], ticker |-> ticker,
                                 change |-> change, alert |-> alert, reply |-> "none"])]

\* lines 14-19: the ticker of the symbol and the test of its change
examined(b, ticker, change) ==
    IF below_alert_percent(change) THEN next_symbol(logged(b, ticker, change, FALSE))
    ELSE [logged(b, ticker, change, TRUE) EXCEPT !.pc = "send"]

fetched(b, ticker) ==
    IF ~truthy(ticker) THEN next_symbol(logged(b, ticker, Fin(0, 1), FALSE))
    ELSE examined(b, ticker, extract_change_pct(ticker))

bybit_fetch(response) ==
    /\ bybit.pc = "fetch"
    /\ bybit' = fetched(bybit, fetch_ticker(response))
    /\ UNCHANGED <<vars, retry, call, flt, client, fetch, push, runs, app>>

\* lines 24-28: send_message, an exception of which is logged
bybit_send(reply) ==
    /\ bybit.pc = "send"
    /\ bybit' = next_symbol([bybit EXCEPT !.log[bybit.i].reply = reply])
    /\ UNCHANGED <<vars, retry, call, flt, client, fetch, push, runs, app>>

BybitInit ==
    /\ JobInit
    /\ retry = NoCall
    /\ call = NoCall
    /\ flt = NoCall
    /\ client = NoCall
    /\ fetch = NoCall
    /\ push = NoCall
    /\ runs = NoCall
    /\ app = NoCall
    /\ bybit = bybit_of

BybitNext ==
    \/ \E response \in Responses : bybit_fetch(response)
    \/ \E reply \in {"sent", "error"} : bybit_send(reply)

BybitSpec == BybitInit /\ [][BybitNext]_all_vars

CallInputs ==
    {call_of("safe_float_convert", v) : v \in CoerceInputs}
        \cup {call_of("validate_pair_data", v) : v \in ValidateInputs}
        \cup {call_of("has_balanced_trading", v) : v \in BalanceInputs}
        \cup {call_of("has_sufficient_trading_activity", v) : v \in ActivityInputs}
        \cup {call_of("has_reasonable_market_cap", v) : v \in MarketCapInputs}
        \cup {call_of("has_sufficient_liquidity_depth", v) : v \in DepthInputs}
        \cup {call_of("has_token_info", v) : v \in TokenInfoInputs}
        \cup {call_of("fetch_dex_data", v) : v \in AggregateInputs}
        \cup {call_of("_validate_webhook_url", v) : v \in WebhookInputs}

CallInit ==
    /\ JobInit
    /\ retry = NoCall
    /\ call \in CallInputs
    /\ flt = NoCall
    /\ client = NoCall
    /\ fetch = NoCall
    /\ push = NoCall
    /\ runs = NoCall
    /\ app = NoCall
    /\ bybit = NoCall

CallNext ==
    \/ call_safe_float_convert
    \/ call_validate_pair_data
    \/ call_has_balanced_trading
    \/ call_has_sufficient_trading_activity
    \/ call_has_reasonable_market_cap
    \/ call_has_sufficient_liquidity_depth
    \/ call_has_token_info
    \/ call_fetch_dex_data
    \/ call_validate_webhook_url

CallSpec == CallInit /\ [][CallNext]_all_vars

returned(fn) == call.pc = "done" /\ call.fn = fn

\* C14: safe_float_convert with the default 0.0 raises nothing and returns a
\* finite float, whatever it is given.
C14_CoercionTotal ==
    returned("safe_float_convert") =>
        call.result.t = "float" /\ call.result.c = "fin"

\* the symbol of a token is a string that is not empty once trimmed
symbol_present(pair, token) ==
    /\ has_key(pair, token)
    /\ pair.d[token].t = "dict"
    /\ has_key(pair.d[token], "symbol")
    /\ pair.d[token].d["symbol"].t = "str"
    /\ str_strip(pair.d[token].d["symbol"].s) # <<>>

\* priceUsd coerces to a number above zero
price_positive(pair) ==
    /\ has_key(pair, "priceUsd")
    /\ LET price == safe_float_convert(pair.d["priceUsd"], default_float)
       IN  ~is_exc(price) /\ f_lt(Fin(0, 1), price)

\* C15: validate_pair_data returns true exactly when the record is a dict,
\* the symbols of its base and quote token are not empty after trimming, and
\* its priceUsd coerces to a number above zero.
C15_ValidatorExact ==
    returned("validate_pair_data") =>
        (call.result = PyBool(TRUE)
            <=> /\ call.arg.t = "dict"
                /\ symbol_present(call.arg, "baseToken")
                /\ symbol_present(call.arg, "quoteToken")
                /\ price_positive(call.arg))

\* the runs of filter_signals that returned a list
returned_runs == {m \in MinVolumes : flt.runs[m].t = "list"}

\* the positions a run returned
accepted(m) == {flt.runs[m].items[k] : k \in 1..Len(flt.runs[m].items)}

is_valid(pair) == validate_pair_data(pair) = PyBool(TRUE)

\* C16: every record filter_signals returns satisfies validate_pair_data,
\* and only records that satisfy it are handed to the quality predicates.
C16_AcceptedAreValid ==
    \A m \in returned_runs :
        /\ \A i \in accepted(m) : is_valid(flt.pairs[i])
        /\ \A i \in 1..Len(flt.pairs) :
              examine(flt.pairs[i], m, flt.clock).legit => is_valid(flt.pairs[i])

\* C17: filter_signals returns a list, whatever list it is given.
C17_NeverRaises ==
    \A m \in MinVolumes : flt.runs[m] # NotRun => flt.runs[m].t = "list"

\* C18: for one list, the records accepted under a higher MIN_VOLUME are
\* among those accepted under a lower one; the call raises under the one
\* exactly when it raises under the other.
C18_MonotoneInMinVolume ==
    \A lo \in MinVolumes, hi \in MinVolumes :
        (lo < hi /\ flt.runs[lo] # NotRun /\ flt.runs[hi] # NotRun) =>
            /\ flt.runs[lo].t = flt.runs[hi].t
            /\ flt.runs[lo].t = "list" => accepted(hi) \subseteq accepted(lo)

\* the higher floor lets some records through and stops others
C18_Witness ==
    \E lo \in returned_runs, hi \in returned_runs :
        /\ lo < hi
        /\ accepted(hi) # {}
        /\ accepted(hi) # accepted(lo)

\* the positions the loop of filter_signals appends
appended(m) ==
    {i \in 1..Len(flt.pairs) : examine(flt.pairs[i], m, flt.clock).verdict = "accept"}

volume_at(i) == sort_key(flt.pairs[i])

\* C19: the list returned holds each accepted record once and no other, in
\* the order of 24h volume from high to low; records of equal volume stand
\* in the order they have in the input.
C19_RankedStable ==
    \A m \in returned_runs :
        LET items == flt.runs[m].items
        IN  /\ accepted(m) = appended(m)
            /\ Len(items) = Cardinality(appended(m))
            /\ \A k \in 1..Len(items), l \in 1..Len(items) :
                  k < l =>
                      /\ f_le(volume_at(items[l]), volume_at(items[k]))
                      /\ f_eq(volume_at(items[l]), volume_at(items[k])) => items[k] < items[l]

\* three records returned, not in the order of the input, two of them of
\* equal volume
C19_Witness ==
    \E m \in returned_runs :
        LET items == flt.runs[m].items
        IN  /\ Len(items) = 3
            /\ items # <<1, 2, 3>>
            /\ \E k \in 1..2 : f_eq(volume_at(items[k]), volume_at(items[k + 1]))
            /\ flt.pairs[items[1]] # flt.pairs[items[2]]
            /\ flt.pairs[items[2]] # flt.pairs[items[3]]

\* the record holds integer 1h counts
has_h1_counts(pair) ==
    /\ pair.t = "dict"
    /\ has_key(pair, "txns")
    /\ pair.d["txns"].t = "dict"
    /\ has_key(pair.d["txns"], "h1")
    /\ pair.d["txns"].d["h1"].t = "dict"
    /\ \A k \in {"buys", "sells"} :
          has_key(pair.d["txns"].d["h1"], k) /\ pair.d["txns"].d["h1"].d[k].t = "int"

h1_buys(pair) == pair.d["txns"].d["h1"].d["buys"].v

h1_sells(pair) == pair.d["txns"].d["h1"].d["sells"].v

\* the record has no 1h counts at all, or counts that are all zero
no_h1_transactions(pair) ==
    \/ pair.t = "dict" /\ ~has_key(pair, "txns")
    \/ pair.t = "dict" /\ pair.d["txns"].t = "dict" /\ ~has_key(pair.d["txns"], "h1")
    \/ pair.t = "dict" /\ pair.d["txns"].t = "dict" /\ pair.d["txns"].d["h1"] = EmptyDict
    \/ has_h1_counts(pair) /\ h1_buys(pair) = 0 /\ h1_sells(pair) = 0

\* C20 as stated: with integer 1h counts and buys + sells > 0 the predicate
\* passes exactly when 0.15 <= buys / (buys + sells) <= 0.85; a record with
\* no 1h transactions fails it.
C20_BalanceBand15 ==
    returned("has_balanced_trading") =>
        /\ (has_h1_counts(call.arg) /\ h1_buys(call.arg) + h1_sells(call.arg) > 0) =>
              (call.result.b <=>
                 /\ 100 * h1_buys(call.arg) >= 15 * (h1_buys(call.arg) + h1_sells(call.arg))
                 /\ 100 * h1_buys(call.arg) <= 85 * (h1_buys(call.arg) + h1_sells(call.arg)))
        /\ no_h1_transactions(call.arg) => ~call.result.b

\* C20 amended: with integer 1h counts and buys + sells > 0 the predicate
\* passes exactly when 0.2 <= buys / (buys + sells) <= 0.8; a record with no
\* 1h transactions fails it.
C20_BalanceBand ==
    returned("has_balanced_trading") =>
        /\ (has_h1_counts(call.arg) /\ h1_buys(call.arg) + h1_sells(call.arg) > 0) =>
              (call.result.b <=>
                 /\ 10 * h1_buys(call.arg) >= 2 * (h1_buys(call.arg) + h1_sells(call.arg))
                 /\ 10 * h1_buys(call.arg) <= 8 * (h1_buys(call.arg) + h1_sells(call.arg)))
        /\ no_h1_transactions(call.arg) => ~call.result.b

\* a record at the lower end of the band passes: 2 buys of 10
C20_Witness ==
    /\ returned("has_balanced_trading")
    /\ has_h1_counts(call.arg)
    /\ h1_buys(call.arg) = 2
    /\ h1_sells(call.arg) = 8
    /\ call.result.b

\* the record holds integer buy and sell counts for a window (h1 or h24)
has_window_counts(pair, window) ==
    /\ pair.t = "dict"
    /\ has_key(pair, "txns")
    /\ pair.d["txns"].t = "dict"
    /\ has_key(pair.d["txns"], window)
    /\ pair.d["txns"].d[window].t = "dict"
    /\ \A k \in {"buys", "sells"} :
          has_key(pair.d["txns"].d[window], k) /\ pair.d["txns"].d[window].d[k].t = "int"

window_total(pair, window) ==
    pair.d["txns"].d[window].d["buys"].v + pair.d["txns"].d[window].d["sells"].v

\* the record carries no transaction data
no_transaction_data(pair) ==
    \/ pair.t = "dict" /\ ~has_key(pair, "txns")
    \/ pair.t = "dict" /\ has_key(pair, "txns") /\ pair.d["txns"] \in {EmptyDict, PyNone}

\* C21 as stated: a record whose 1h count buys + sells is below 10 is
\* rejected, and so is a record with no transaction data.
C21_ActivityFloor10 ==
    returned("has_sufficient_trading_activity") =>
        /\ (has_window_counts(call.arg, "h1") /\ window_total(call.arg, "h1") < 10)
              => ~call.result.b
        /\ no_transaction_data(call.arg) => ~call.result.b

\* C21 amended: the minimum is 5.  A record whose 1h count buys + sells is
\* below 5 is rejected, and so is a record with no transaction data; with
\* integer counts for both windows the record passes exactly when the 1h
\* count is at least 5 and the 24h count at least 20.
C21_ActivityFloor ==
    returned("has_sufficient_trading_activity") =>
        /\ (has_window_counts(call.arg, "h1") /\ window_total(call.arg, "h1") < min_h1_txns)
              => ~call.result.b
        /\ no_transaction_data(call.arg) => ~call.result.b
        /\ (has_window_counts(call.arg, "h1") /\ has_window_counts(call.arg, "h24")) =>
              (call.result.b <=> /\ window_total(call.arg, "h1") >= min_h1_txns
                                 /\ window_total(call.arg, "h24") >= min_h24_txns)

\* a record with 5 transactions in the hour and 20 in the day passes
C21_Witness ==
    /\ returned("has_sufficient_trading_activity")
    /\ has_window_counts(call.arg, "h1")
    /\ has_window_counts(call.arg, "h24")
    /\ window_total(call.arg, "h1") = 5
    /\ window_total(call.arg, "h24") = 20
    /\ call.result.b

\* the record has a market cap that is a number (NaN is none)
cap_is_number(pair) ==
    /\ pair.t = "dict"
    /\ has_key(pair, "marketCap")
    /\ is_number(pair.d["marketCap"])
    /\ pair.d["marketCap"] # NaN

market_cap_of(pair) == num(pair.d["marketCap"])

\* the market cap is absent or cannot be evaluated: no record, no key, None,
\* or a value that is no number
cap_unknown(pair) ==
    \/ pair.t # "dict"
    \/ ~has_key(pair, "marketCap")
    \/ ~is_number(pair.d["marketCap"])

depth_value(pair, outer, inner) ==
    to_float(dict_get(dict_get(pair, outer, EmptyDict), inner, PyInt(0)))

\* both the 24h volume and the USD liquidity of the record are finite numbers
has_depth_values(pair) ==
    /\ ~is_exc(depth_value(pair, "volume", "h24"))
    /\ ~is_exc(depth_value(pair, "liquidity", "usd"))
    /\ depth_value(pair, "volume", "h24").c = "fin"
    /\ depth_value(pair, "liquidity", "usd").c = "fin"

both_positive(pair) ==
    /\ has_depth_values(pair)
    /\ f_lt(Fin(0, 1), depth_value(pair, "volume", "h24"))
    /\ f_lt(Fin(0, 1), depth_value(pair, "liquidity", "usd"))

\* low/per <= volume / liquidity <= high, liquidity being above zero
ratio_within(volume_24h, liquidity_usd, low, per, high) ==
    /\ low * liquidity_usd.n * volume_24h.d <= per * volume_24h.n * liquidity_usd.d
    /\ volume_24h.n * liquidity_usd.d <= high * liquidity_usd.n * volume_24h.d

\* C23 as stated: when 24h volume and USD liquidity are both positive the
\* predicate passes exactly when volume / liquidity lies in [0.2, 5.0].
C23_RatioBand02 ==
    (returned("has_sufficient_liquidity_depth") /\ both_positive(call.arg)) =>
        (call.result.b <=> ratio_within(depth_value(call.arg, "volume", "h24"),
                                        depth_value(call.arg, "liquidity", "usd"), 2, 10, 5))

\* C23 amended: when 24h volume and USD liquidity are both positive the
\* predicate passes exactly when volume / liquidity lies in [0.1, 5.0]; when
\* one of them is zero or negative the predicate fails.
C23_RatioBand ==
    returned("has_sufficient_liquidity_depth") =>
        /\ both_positive(call.arg) =>
              (call.result.b <=> ratio_within(depth_value(call.arg, "volume", "h24"),
                                              depth_value(call.arg, "liquidity", "usd"),
                                              1, 10, 5))
        /\ (has_depth_values(call.arg) /\ ~both_positive(call.arg)) => ~call.result.b

\* volume 1500 on liquidity 10000, a ratio of 0.15, passes
C23_Witness ==
    /\ returned("has_sufficient_liquidity_depth")
    /\ call.arg = with_depth(PyInt(1500), PyInt(10000))
    /\ call.result.b

\* the substrings the specification lists
listed_patterns ==
    {<<"t", "e", "s", "t">>,
     <<"f", "a", "k", "e">>,
     <<"s", "c", "a", "m">>,
     <<"r", "u", "g">>,
     <<"h", "o", "n", "e", "y", "p", "o", "t">>,
     <<"d", "e", "a", "d">>}

\* the record has a base token whose name and symbol are strings
has_base_texts(pair) ==
    /\ pair.t = "dict"
    /\ has_key(pair, "baseToken")
    /\ pair.d["baseToken"].t = "dict"
    /\ \A k \in {"name", "symbol"} :
          has_key(pair.d["baseToken"], k) /\ pair.d["baseToken"].d[k].t = "str"

\* the name or the symbol of the base token holds the pattern in some case
base_mentions(pair, pattern) ==
    \/ str_contains(str_lower(pair.d["baseToken"].d["name"].s), pattern)
    \/ str_contains(str_lower(pair.d["baseToken"].d["symbol"].s), pattern)

\* C24: a record is rejected whenever the name or the symbol of its base token
\* contains, in any case, one of test, fake, scam, rug, honeypot, dead.
C24_NamePatterns ==
    (returned("has_token_info") /\ has_base_texts(call.arg)) =>
        ((\E pattern \in listed_patterns : base_mentions(call.arg, pattern))
            => ~call.result.b)

\* the scenario has been run under MIN_VOLUME = 10000
scenario_run ==
    /\ flt.pc = "ready"
    /\ flt.pairs = scenario_pairs
    /\ flt.runs[10000] # NotRun

\* C25: filter_signals on the records A, B, C, D of the scenario under
\* MIN_VOLUME = 10000 returns the list [A].
C25_Scenario == scenario_run => flt.runs[10000] = Returned(<<1>>)

\* C26: under every interleaving of acquire() calls and close() calls at most
\* one client is open at any time, it is the current one, and a task that
\* returns from acquire() while a client is open receives that client.
C26_SingleLiveClient ==
    /\ Cardinality(client.open) <= 1
    /\ client.open \subseteq {client.current}
    /\ (client.last = "return" /\ client.open # {}) =>
          \A t \in Tasks : (client.pc[t] = "idle" /\ client.got[t] \in client.open)
                              => client.got[t] = client.current

\* two tasks hold the same open client, the second one constructed after a close
C26_Witness ==
    /\ client.made = 2
    /\ client.open = {2}
    /\ \A t \in Tasks : client.got[t] = 2

\* the pairAddress of a record, PyNone if it has none
address_of(pair) == dict_get(pair, "pairAddress", PyNone)

\* the records the query terms contribute, in query order
contributed == merged_terms(call.arg.results)

\* the first record with that address among those contributed
first_with(address) ==
    contributed[SetMin({k \in 1..Len(contributed) : address_of(contributed[k]) = address})]

\* C27: an address that several query terms return is in the aggregated
\* output at most once, the record kept is its first occurrence in query
\* order, and unless the limit cut the output it is there exactly once.
C27_Deduplicated ==
    returned("fetch_dex_data") =>
        LET out == call.result.items
        IN  /\ \A i, j \in 1..Len(out) :
                  (i # j /\ truthy(address_of(out[i])))
                      => address_of(out[i]) # address_of(out[j])
            /\ \A i \in 1..Len(out) :
                  truthy(address_of(out[i])) => out[i] = first_with(address_of(out[i]))
            /\ Len(out) < call.arg.limit =>
                  \A k \in 1..Len(contributed) :
                      truthy(address_of(contributed[k])) =>
                          \E i \in 1..Len(out) :
                              address_of(out[i]) = address_of(contributed[k])

\* both terms returned a record with address a, differing in volume, and the
\* output holds the one of the first term only
C27_Witness ==
    /\ returned("fetch_dex_data")
    /\ call.arg.results = << <<on_chain(with_volume(good_pair("a"), PyInt(70000)))>>,
                             <<on_chain(good_pair("a"))>> >>
    /\ call.result.items = <<on_chain(with_volume(good_pair("a"), PyInt(70000)))>>

\* the calls of get_filtered_signals that returned signals
with_signals == {k \in 1..Len(fetch.calls) : fetch.calls[k].kind = "signals"}

\* C28: fetch_signals_with_retry never raises; it calls get_filtered_signals
\* at most max_attempts times; it returns the first result that is not
\* empty, and None when no call returned one, whether the calls raised or
\* returned empty results.
C28_FetchCollapses ==
    fetch.pc = "done" =>
        /\ ~fetch.raised
        /\ Len(fetch.calls) <= fetch.max_attempts
        /\ with_signals # {} =>
              /\ with_signals = {Len(fetch.calls)}
              /\ fetch.result = fetch.calls[Len(fetch.calls)].signals
        /\ with_signals = {} =>
              /\ fetch.result = "none"
              /\ Len(fetch.calls) = fetch.max_attempts

\* three calls, the first empty and the others raising, end in None
C28_Witness ==
    /\ fetch.pc = "done"
    /\ fetch.max_attempts = 3
    /\ Len(fetch.calls) = 3
    /\ fetch.calls[1].kind = "empty"
    /\ fetch.calls[2].kind = "raise"
    /\ fetch.calls[3].kind = "raise"
    /\ fetch.result = "none"

\* a trigger of one of the push jobs has called context.bot.send_message
has_sent == push.pc # "idle" /\ push.job \in PushJobs /\ push.sent # <<>>

\* the fetch of the trigger has completed with signals
fetch_completed ==
    /\ push.signals \in SignalLists
    /\ push.job \in EnhancedJobs => (fetch.pc = "done" /\ fetch.result = push.signals)

\* the message was formatted whole before it was handed over
message_formatted ==
    /\ push.message \in Messages
    /\ \A k \in 1..Len(push.sent) : push.sent[k].message = push.message

parsed_url == urlparse(call.arg.url)

port_of(netloc) == port_text(hostinfo_of(netloc), first_of(hostinfo_of(netloc), {":"}))

numeric(s) == \A i \in 1..Len(s) : is_digit(s[i])

well_formed(parsed) ==
    /\ ~is_exc(parsed)
    /\ parsed.scheme \in webhook_schemes
    /\ parsed.hostname # PyNone
    /\ numeric(port_of(parsed.netloc))

\* C30: a webhook URL is accepted exactly when its scheme is http or https,
\* its host is not empty and its port, if it has one, is numeric:
\* https://example.com and http://example.com:8080 are accepted,
\* ftp://example.com, https://, https://example.com:abc and "not a url" are
\* not.
C30_WebhookValidation ==
    returned("_validate_webhook_url") => (call.result.b <=> well_formed(parsed_url))

\* a /signals command whose fetch has yielded nothing
command_without_signals ==
    /\ push.pc # "idle"
    /\ push.job = "signals_command"
    /\ fetch.pc = "done"
    /\ fetch.result = "none"

\* C31: when the fetch yields nothing, the message the /signals command sends
\* to the user is the 'No Signals Available' notice.
C31_NoSignalsNotice ==
    command_without_signals =>
        \A k \in 1..Len(push.sent) : push.sent[k].message = NoSignalsNotice

\* the messages a trigger of _enhanced_signal_push has handed to send_message
delivered ==
    IF push.pc # "idle" /\ push.job \in EnhancedJobs
    THEN {push.sent[k].message : k \in 1..Len(push.sent)}
    ELSE {}

\* C32 as stated: every message a scheduled push delivers is at most 4000
\* characters long, has at least 10 characters that are not blank and holds
\* an indicator.
C32_DeliveredNonBlank ==
    \A message \in delivered :
        /\ message.len <= max_message_length
        /\ message.nonblank >= min_message_length
        /\ message.indicator

\* C32: every message a scheduled push (_enhanced_signal_push) delivers has
\* passed validate_message_content: it is at most 4000 characters long, is
\* at least 10 characters long once the white space at its ends is stripped
\* and holds an indicator; a message failing the validation is never sent.
C32_DeliveredValidated ==
    \A message \in delivered :
        /\ validate_message_content(message)
        /\ message.len <= max_message_length
        /\ message.stripped >= min_message_length
        /\ message.indicator

\* a push that was delivered at its third attempt
C32_Witness ==
    /\ push.pc = "done"
    /\ push.job = "vip_signals_push"
    /\ push.ended = "published"
    /\ Len(push.sent) = 3
    /\ validate_message_content(push.message)

\* a call of send_message_with_retry has returned
send_returned == push.pc = "done" /\ push.job = "send_message_with_retry"

\* the send calls after which the function does not go on
final_replies == {"sent", "chat not found", "bot was blocked"}

\* C33: send_message_with_retry makes at most max_attempts send calls; it
\* returns True exactly when one send call succeeded, and makes no send call
\* after a success; it never raises; after 'chat not found' or 'bot was
\* blocked' it returns False at once, without another send.
C33_SendCollapses ==
    send_returned =>
        /\ Len(push.replies) <= push.max_attempts
        /\ push.ended \in {"published", "not_sent"}
        /\ push.ended = "published" <=> (\E k \in 1..Len(push.replies) : push.replies[k] = "sent")
        /\ \A k \in 1..Len(push.replies) :
              push.replies[k] \in final_replies => k = Len(push.replies)
        /\ (\A k \in 1..Len(push.replies) : push.replies[k] \notin final_replies)
              => Len(push.replies) = push.max_attempts

\* an error, then 'chat not found' at the second of three attempts
C33_Witness ==
    /\ send_returned
    /\ push.max_attempts = 3
    /\ push.replies = <<"error", "chat not found">>
    /\ push.ended = "not_sent"

\* C34: send_message_with_retry sleeps only in order to make another attempt:
\* once its last permitted attempt has failed it returns False without a
\* further sleep, whatever the error, flood errors included.
C34_NoSleepAfterLast ==
    send_returned =>
        \A k \in 1..Len(push.slept) : push.slept[k].sends < Len(push.sent)

\* a trigger of one of the scheduled push callbacks has ended
push_returned == push.pc = "done" /\ push.job \in PushJobs

\* C35: a scheduled push callback (vip_signals_push, public_signals_push,
\* publish_signals_job) never lets an exception reach the scheduler: whatever
\* fails inside it, reading the job data, fetching, formatting or sending,
\* the callback returns normally.
C35_PushReturns == push_returned => push.ended # "raised"

\* a trigger of publish_signals_job whose send raised has returned
C35_Witness ==
    /\ push_returned
    /\ push.ended = "error"
    /\ push.job = "publish_signals_job"
    /\ Len(push.replies) = 1
    /\ push.replies[1] = "error"

\* C36: under any interleaving of the VIP and the public push job registered
\* at startup, a message formatted with vip=True is only ever sent to
\* VIP_CHANNEL_ID, the public channel only ever receives messages formatted
\* with vip=False, and each run sends only to the chat id its own job carries.
C36_ChannelIsolation ==
    runs # NoCall =>
        \A j \in RegisteredJobs : \A k \in 1..Len(runs.of[j].sent) :
            /\ runs.of[j].sent[k].message.vip => runs.of[j].sent[k].chat_id = VIP_CHANNEL_ID
            /\ runs.of[j].sent[k].chat_id = PUBLIC_CHANNEL_ID => ~runs.of[j].sent[k].message.vip
            /\ runs.of[j].sent[k].chat_id = registered(runs.startup, j).data

\* both jobs have sent while the other was between its fetch and its send
C36_Witness ==
    /\ runs # NoCall
    /\ runs.startup = "bot"
    /\ runs.of["vip_signals"].pc = "sending"
    /\ Len(runs.of["vip_signals"].sent) = 1
    /\ runs.of["vip_signals"].sent[1].message.vip
    /\ runs.of["public_signals"].pc = "sending"
    /\ Len(runs.of["public_signals"].sent) = 2
    /\ ~runs.of["public_signals"].sent[2].message.vip

\* the bot runs in polling mode and a signal has come in
signalled_while_polling ==
    /\ app # NoCall
    /\ app.mode = "polling"
    /\ app.pc = "waiting"
    /\ app.signals > 0

\* C37: once SIGINT or SIGTERM is received while the bot runs in polling
\* mode, the shutdown event is eventually set and run_polling eventually
\* returns, whatever errors occur while the application is stopped or the
\* HTTP connections are closed.
C37_ShutdownCompletes ==
    signalled_while_polling ~> (app.event /\ app.result = "returned")

\* C38: the shutdown takes effect at most once per run: across the signal
\* handler and the finally clauses of run_polling and run_webhook,
\* application.stop() and the HTTP cleanup are each called at most once.
C38_ShutdownOnce == app # NoCall => (app.stops <= 1 /\ app.cleanups <= 1)

\* a ticker was fetched for the entry of the log
ticker_fetched(entry) == truthy(entry.ticker)

\* the absolute change of the entry is at least BYBIT_ALERT_PERCENT
at_least_alert_percent(entry) ==
    f_le(BYBIT_ALERT_PERCENT, f_abs(extract_change_pct(entry.ticker)))

\* C39: for each configured symbol, in order, an alert is sent exactly when a
\* ticker was fetched and the absolute 24h change (price24hPcnt x 100, or 0
\* when it cannot be parsed) is at least BYBIT_ALERT_PERCENT; a failed fetch
\* or a failed send for one symbol never keeps the remaining symbols from
\* being processed, and the job never raises.
C39_BybitAlerts ==
    bybit # NoCall =>
        /\ \A k \in 1..Len(bybit.log) :
              /\ bybit.log[k].symbol = BYBIT_SYMBOLS[k]
              /\ bybit.log[k].alert <=>
                    (ticker_fetched(bybit.log[k]) /\ at_least_alert_percent(bybit.log[k]))
        /\ bybit.pc = "done" =>
              (Len(bybit.log) = Len(BYBIT_SYMBOLS) /\ bybit.ended = "returned")

====
